---- MODULE Spec2Model ----
(***************************************************************************)
(* Invoice text extraction (tracker/utils/pdf_text_extractor.py).          *)
(*                                                                         *)
(* Texts are strings; a character is a string of length one.  The regular  *)
(* expressions of the source are kept as syntax trees and run by a         *)
(* backtracking matcher with the semantics of Python's re module, so that  *)
(* every pattern of the source appears here in the shape it has there.     *)
(***************************************************************************)
EXTENDS Integers, Sequences, FiniteSets, TLC

(***************************************************************************)
(* Characters and the string methods of Python used by the source.         *)
(***************************************************************************)
UpperChars == {"A","B","C","D","E","F","G","H","I","J","K","L","M",
               "N","O","P","Q","R","S","T","U","V","W","X","Y","Z"}

LowerChars == {"a","b","c","d","e","f","g","h","i","j","k","l","m",
               "n","o","p","q","r","s","t","u","v","w","x","y","z"}

DigitChars == {"0","1","2","3","4","5","6","7","8","9"}

SpaceChars == {" ", "\t", "\n", "\r"}

WordChars == UpperChars \cup LowerChars \cup DigitChars \cup {"_"}

UpperSeq == "ABCDEFGHIJKLMNOPQRSTUVWXYZ"

LowerSeq == "abcdefghijklmnopqrstuvwxyz"

RECURSIVE IndexIn(_, _, _)
IndexIn(c, alphabet, i) ==
    IF i > Len(alphabet) THEN 0
    ELSE IF SubSeq(alphabet, i, i) = c THEN i
    ELSE IndexIn(c, alphabet, i + 1)

Ch(s, i) == SubSeq(s, i, i)

LowerChar(c) == IF c \in UpperChars THEN Ch(LowerSeq, IndexIn(c, UpperSeq, 1)) ELSE c

UpperChar(c) == IF c \in LowerChars THEN Ch(UpperSeq, IndexIn(c, LowerSeq, 1)) ELSE c

RECURSIVE MapChars(_, _, _)
MapChars(s, i, up) ==
    IF i > Len(s) THEN ""
    ELSE (IF up THEN UpperChar(Ch(s, i)) ELSE LowerChar(Ch(s, i)))
         \o MapChars(s, i + 1, up)

\* str.lower() and str.upper()
lower(s) == MapChars(s, 1, FALSE)

upper(s) == MapChars(s, 1, TRUE)

RECURSIVE FirstNonSpace(_, _)
FirstNonSpace(s, i) ==
    IF i > Len(s) THEN Len(s) + 1
    ELSE IF Ch(s, i) \in SpaceChars THEN FirstNonSpace(s, i + 1)
    ELSE i

RECURSIVE LastNonSpace(_, _)
LastNonSpace(s, i) ==
    IF i < 1 THEN 0
    ELSE IF Ch(s, i) \in SpaceChars THEN LastNonSpace(s, i - 1)
    ELSE i

\* str.strip()
strip(s) == SubSeq(s, FirstNonSpace(s, 1), LastNonSpace(s, Len(s)))

\* str.endswith(suffix)
endswith(s, suffix) ==
    /\ Len(suffix) <= Len(s)
    /\ SubSeq(s, Len(s) - Len(suffix) + 1, Len(s)) = suffix

\* str.startswith(prefix) at offset i (1-based)
StartsAt(s, i, prefix) ==
    /\ i + Len(prefix) - 1 <= Len(s)
    /\ SubSeq(s, i, i + Len(prefix) - 1) = prefix

RECURSIVE FindFrom(_, _, _)
\* str.find(sub, i): first index >= i where sub occurs, 0 when there is none
FindFrom(s, sub, i) ==
    IF i + Len(sub) - 1 > Len(s) THEN 0
    ELSE IF StartsAt(s, i, sub) THEN i
    ELSE FindFrom(s, sub, i + 1)

\* sub in s
contains(s, sub) == FindFrom(s, sub, 1) # 0

RECURSIVE SplitFrom(_, _, _)
SplitFrom(s, sep, i) ==
    LET CutAt(k) == IF k = 0 THEN << SubSeq(s, i, Len(s)) >>
                    ELSE << SubSeq(s, i, k - 1) >> \o SplitFrom(s, sep, k + Len(sep))
    IN CutAt(FindFrom(s, sep, i))

\* str.split(sep)
split(s, sep) == SplitFrom(s, sep, 1)

RECURSIVE WordEnd(_, _)
WordEnd(s, j) ==
    IF j > Len(s) \/ Ch(s, j) \in SpaceChars THEN j ELSE WordEnd(s, j + 1)

RECURSIVE WordsFrom(_, _)
WordsFrom(s, i) ==
    LET WordAt(b, e) == IF b > Len(s) THEN << >>
                        ELSE << SubSeq(s, b, e - 1) >> \o WordsFrom(s, e)
        From(b) == WordAt(b, WordEnd(s, b))
    IN From(FirstNonSpace(s, i))

\* str.split() with no argument
words(s) == WordsFrom(s, 1)

RECURSIVE join(_, _)
\* sep.join(parts)
join(sep, parts) ==
    IF parts = << >> THEN ""
    ELSE IF Len(parts) = 1 THEN parts[1]
    ELSE parts[1] \o sep \o join(sep, Tail(parts))

\* str.replace(old, new, 1)
replace1(s, old, new) ==
    LET ReplaceAt(k) == IF k = 0 THEN s
                        ELSE SubSeq(s, 1, k - 1) \o new \o SubSeq(s, k + Len(old), Len(s))
    IN ReplaceAt(IF old = "" THEN 1 ELSE FindFrom(s, old, 1))

\* Python's None where a string is expected
None == "<None>"

(***************************************************************************)
(* Regular expressions: syntax trees and a backtracking matcher that       *)
(* follows Python's re (leftmost match, alternatives and repetitions tried *)
(* in priority order, greedy or lazy).  Flags: i = re.I, m = re.MULTILINE. *)
(***************************************************************************)
Lit(str) == [t |-> "lit", s |-> str]

Set(chars) == [t |-> "set", cs |-> chars, neg |-> FALSE]

Not(chars) == [t |-> "set", cs |-> chars, neg |-> TRUE]

Cat(nodes) == [t |-> "seq", rs |-> nodes]

Alt(nodes) == [t |-> "alt", rs |-> nodes]

\* no upper limit of a repetition
Inf == 1000 * 1000

Rep(node, lo, hi) == [t |-> "rep", r |-> node, lo |-> lo, hi |-> hi, lazy |-> FALSE, at |-> 0]

RepLazy(node, lo, hi) == [t |-> "rep", r |-> node, lo |-> lo, hi |-> hi, lazy |-> TRUE, at |-> 0]

Star(node) == Rep(node, 0, Inf)

Plus(node) == Rep(node, 1, Inf)

Opt(node) == Rep(node, 0, 1)

Grp(k, node) == [t |-> "grp", n |-> k, r |-> node]

Ahead(node) == [t |-> "la", r |-> node, neg |-> FALSE]

NotAhead(node) == [t |-> "la", r |-> node, neg |-> TRUE]

Bol == [t |-> "bol"]

Eol == [t |-> "eol"]

WB == [t |-> "wb"]

Dot == Not({"\n"})

AnyChar == Not({})

Digit == Set(DigitChars)

Space == Set(SpaceChars)

Word == Set(WordChars)

ReI == [i |-> TRUE, m |-> FALSE]

ReIM == [i |-> TRUE, m |-> TRUE]

Re0 == [i |-> FALSE, m |-> FALSE]

\* group spans <<first, after last>>; <<0, 0>> for a group that did not match
NoCaps == << <<0, 0>>, <<0, 0>>, <<0, 0>> >>

NoMatch == [ok |-> FALSE, b |-> 0, e |-> 0, caps |-> NoCaps]

CharIn(c, node, f) ==
    node.neg # (\/ c \in node.cs
                \/ f.i /\ (LowerChar(c) \in node.cs \/ UpperChar(c) \in node.cs))

LitAt(s, i, str, f) ==
    /\ i + Len(str) - 1 <= Len(s)
    /\ IF f.i THEN lower(SubSeq(s, i, i + Len(str) - 1)) = lower(str)
       ELSE SubSeq(s, i, i + Len(str) - 1) = str

IsWordAt(s, i) == i >= 1 /\ i <= Len(s) /\ Ch(s, i) \in WordChars

RECURSIVE RunLen(_, _, _, _, _)
\* how many characters from position i on belong to the class, at most max
RunLen(s, i, node, f, max) ==
    IF max = 0 \/ i > Len(s) \/ ~CharIn(Ch(s, i), node, f) THEN 0
    ELSE 1 + RunLen(s, i + 1, node, f, max - 1)

\* a point of the search: the nodes still to match, the position, the groups
Config(stack, i, caps) == [stack |-> stack, i |-> i, caps |-> caps]

\* the configuration when the condition holds, no alternative otherwise
Only(cond, stack, i, caps) == IF cond THEN << Config(stack, i, caps) >> ELSE << >>

\* the repetition of a character class may take run characters: the lengths
\* from run down to lo (greedy) or from lo up to run (lazy)
RepLengths(n, rest, i, caps, run) ==
    [j \in 1..(run - n.lo + 1) |->
        Config(rest, i + (IF n.lazy THEN n.lo + j - 1 ELSE run - j + 1), caps)]

\* the repetition of any other node: once more and then the rest of the
\* repetition, or stop; a repetition that took nothing at this position stops
RepGeneral(n, rest, i, caps) ==
    LET Choice(again, stop) == IF n.lazy THEN stop \o again ELSE again \o stop
    IN IF n.at = i \/ n.hi = 0
       THEN Only(n.lo = 0 \/ n.at = i, rest, i, caps)
       ELSE Choice(<< Config(<<n.r, [n EXCEPT !.lo = IF n.lo > 0 THEN n.lo - 1 ELSE 0,
                                              !.hi = n.hi - 1, !.at = i]>> \o rest, i, caps) >>,
                   Only(n.lo = 0, rest, i, caps))

RECURSIVE MatchK(_, _, _, _, _)
\* the ways to go on after the first node n of the stack, in priority order
Alternatives(n, rest, s, i, caps, f) ==
    CASE n.t = "lit" -> Only(LitAt(s, i, n.s, f), rest, i + Len(n.s), caps)
      [] n.t = "set" -> Only(i <= Len(s) /\ CharIn(Ch(s, i), n, f), rest, i + 1, caps)
      [] n.t = "seq" -> << Config(n.rs \o rest, i, caps) >>
      [] n.t = "alt" -> [k \in 1..Len(n.rs) |-> Config(<<n.rs[k]>> \o rest, i, caps)]
      [] n.t = "rep" ->
           IF n.r.t = "set" THEN RepLengths(n, rest, i, caps, RunLen(s, i, n.r, f, n.hi))
           ELSE RepGeneral(n, rest, i, caps)
      [] n.t = "grp" ->
           << Config(<<n.r, [t |-> "close", n |-> n.n, from |-> i]>> \o rest, i, caps) >>
      [] n.t = "close" -> << Config(rest, i, [caps EXCEPT ![n.n] = <<n.from, i>>]) >>
      [] n.t = "la" ->
           LET Looked(a) == Only(a.ok # n.neg, rest, i, IF n.neg THEN caps ELSE a.caps)
           IN Looked(MatchK(<<n.r>>, s, i, caps, f))
      [] n.t = "bol" -> Only(i = 1 \/ (f.m /\ Ch(s, i - 1) = "\n"), rest, i, caps)
      [] n.t = "eol" ->
           Only(\/ i = Len(s) + 1
                \/ i = Len(s) /\ Ch(s, i) = "\n"
                \/ f.m /\ i <= Len(s) /\ Ch(s, i) = "\n", rest, i, caps)
      [] n.t = "wb" -> Only(IsWordAt(s, i - 1) # IsWordAt(s, i), rest, i, caps)

RECURSIVE FirstOf(_, _, _, _)
\* the first alternative from the k-th on that leads to a match
FirstOf(alts, k, s, f) ==
    IF k > Len(alts) THEN NoMatch
    ELSE LET Found(a) == IF a.ok THEN a ELSE FirstOf(alts, k + 1, s, f)
         IN Found(MatchK(alts[k].stack, s, alts[k].i, alts[k].caps, f))

\* match the nodes of the stack one after the other from position i;
\* e is the position after the match
MatchK(stack, s, i, caps, f) ==
    IF stack = << >> THEN [ok |-> TRUE, b |-> 0, e |-> i, caps |-> caps]
    ELSE FirstOf(Alternatives(Head(stack), Tail(stack), s, i, caps, f), 1, s, f)

RECURSIVE SearchFrom(_, _, _, _)
\* re.search from position i on: the leftmost match
SearchFrom(re, s, i, f) ==
    IF i > Len(s) + 1 THEN NoMatch
    ELSE LET Found(a) == IF a.ok THEN [a EXCEPT !.b = i] ELSE SearchFrom(re, s, i + 1, f)
         IN Found(MatchK(<<re>>, s, i, NoCaps, f))

\* re.search(re, s, flags)
search(re, s, f) == SearchFrom(re, s, 1, f)

\* re.match(re, s, flags)
match(re, s, f) ==
    LET Found(a) == IF a.ok THEN [a EXCEPT !.b = 1] ELSE NoMatch
    IN Found(MatchK(<<re>>, s, 1, NoCaps, f))

\* m.group(k); None for a group that took no part in the match
group(m, s, k) ==
    IF m.caps[k] = <<0, 0>> THEN None
    ELSE SubSeq(s, m.caps[k][1], m.caps[k][2] - 1)

\* m.group(0)
group0(m, s) == SubSeq(s, m.b, m.e - 1)

\* m = re.search(re, s, flags); m.group(k).strip() if m else default
found_group(re, s, f, k, default) ==
    LET Pick(m) == IF m.ok THEN strip(group(m, s, k)) ELSE default
    IN Pick(search(re, s, f))

RECURSIVE FindAllFrom(_, _, _, _, _)
\* re.findall for a pattern with k = 0 or 1 groups
FindAllFrom(re, s, i, f, k) ==
    LET Found(m) ==
            IF ~m.ok THEN << >>
            ELSE << IF k = 0 THEN group0(m, s)
                    ELSE IF group(m, s, k) = None THEN "" ELSE group(m, s, k) >>
                 \o FindAllFrom(re, s, IF m.e = m.b THEN m.e + 1 ELSE m.e, f, k)
    IN Found(SearchFrom(re, s, i, f))

findall(re, s, f, k) == FindAllFrom(re, s, 1, f, k)

RECURSIVE SubFrom(_, _, _, _, _)
\* re.sub(re, repl, s, flags) for a replacement without group references
SubFrom(re, repl, s, i, f) ==
    LET Found(m) ==
            IF ~m.ok THEN SubSeq(s, i, Len(s))
            ELSE IF m.e = m.b
                 THEN repl \o SubSeq(s, m.b, m.b) \o SubFrom(re, repl, s, m.b + 1, f)
                 ELSE SubSeq(s, i, m.b - 1) \o repl \o SubFrom(re, repl, s, m.e, f)
    IN Found(SearchFrom(re, s, i, f))

sub(re, repl, s, f) == SubFrom(re, repl, s, 1, f)


(***************************************************************************)
(* decimal.Decimal: sign, coefficient and number of fractional digits.     *)
(* null stands for Python's None where a Decimal is expected.              *)
(***************************************************************************)
NullDec == [null |-> TRUE, neg |-> FALSE, coef |-> 0, frac |-> 0]

Dec(neg, coef, frac) == [null |-> FALSE, neg |-> neg, coef |-> coef, frac |-> frac]

\* bool(d) of a Decimal or None
DecTruthy(d) == ~d.null /\ d.coef # 0

AllDigits(str) == \A i \in 1..Len(str) : Ch(str, i) \in DigitChars

RECURSIVE DigitsValue(_, _)
\* the number written by the first n characters of a string of digits
DigitsValue(str, n) ==
    IF n = 0 THEN 0
    ELSE 10 * DigitsValue(str, n - 1) + (IndexIn(Ch(str, n), "0123456789", 1) - 1)

\* Decimal(str) for a string of digits, dots and minus signs;
\* NullDec where Decimal raises InvalidOperation
DecimalOf(str) ==
    LET neg == Len(str) > 0 /\ Ch(str, 1) = "-"
        body == IF neg THEN SubSeq(str, 2, Len(str)) ELSE str
        dot == FindFrom(body, ".", 1)
        int == IF dot = 0 THEN body ELSE SubSeq(body, 1, dot - 1)
        fr == IF dot = 0 THEN "" ELSE SubSeq(body, dot + 1, Len(body))
    IN IF AllDigits(int) /\ AllDigits(fr) /\ Len(int) + Len(fr) > 0
       THEN Dec(neg, DigitsValue(int \o fr, Len(int) + Len(fr)), Len(fr))
       ELSE NullDec

(***************************************************************************)
(* parse_invoice_data: the seller block at the top of the document.        *)
(***************************************************************************)
Min(a, b) == IF a < b THEN a ELSE b

\* s[:n] of a list
Take(list, n) == SubSeq(list, 1, Min(n, Len(list)))

\* [f(x) for x in list]
StripAll(list) == [i \in 1..Len(list) |-> strip(list[i])]

NonEmpty(str) == str # ""

\* the stripped non-empty lines of the text
cleaned_lines(normalized_text) ==
    SelectSeq(StripAll(split(normalized_text, "\n")), NonEmpty)

SellerMarker ==
    Alt(<<Lit("Proforma"), Cat(<<Lit("Invoice"), WB>>), Cat(<<Lit("PI"),
      WB>>), Cat(<<Lit("Customer"), WB>>), Cat(<<Lit("Bill"), Star(Space),
      Lit("To")>>), Cat(<<Lit("Date"), WB>>), Cat(<<Lit("Customer"),
      Star(Space), Lit("Reference")>>), Cat(<<Lit("Invoice"), Star(Space),
      Lit("No")>>), Lit("Code")>>)

SellerPhone ==
    Cat(<<Alt(<<Cat(<<Lit("Tel"), Opt(Lit("."))>>), Lit("Telephone"),
      Lit("Phone")>>), Star(Set(SpaceChars \cup {":"})), Grp(1,
      Cat(<<Set(DigitChars \cup {"+"}),
      Rep(Set(DigitChars \cup SpaceChars \cup {"-", "/", "(", ")", ","}), 4,
      Inf), Digit>>))>>)

EmailPattern ==
    Grp(1, Cat(<<Plus(Set(WordChars \cup {".", "-"})), Lit("@"),
      Plus(Set(WordChars \cup {".", "-"})), Lit("."), Plus(Word)>>))

SellerTax ==
    Cat(<<Lit("Tax"), Alt(<<Cat(<<Star(Space), Lit("ID")>>),
      Cat(<<Star(Space), Lit("No"), Opt(Lit("."))>>), Cat(<<Star(Space),
      Lit("Number")>>)>>), Star(Set(SpaceChars \cup {":"})), Grp(1,
      Star(Set(UpperChars \cup DigitChars \cup {"-", "/"})))>>)

SellerVat ==
    Cat(<<Lit("VAT"), Alt(<<Cat(<<Star(Space), Lit("Reg"), Opt(Lit("."))>>),
      Cat(<<Star(Space), Lit("No"), Opt(Lit("."))>>), Cat(<<>>)>>),
      Star(Set(SpaceChars \cup {":"})), Grp(1,
      Star(Set(UpperChars \cup DigitChars \cup {"-", "/"})))>>)

RECURSIVE FirstMarkerLine(_, _)
\* index of the first line of the block with an invoice or customer marker, 0 if none
FirstMarkerLine(top_block, i) ==
    IF i > Len(top_block) THEN 0
    ELSE IF search(SellerMarker, top_block[i], ReI).ok THEN i
    ELSE FirstMarkerLine(top_block, i + 1)

\* the lines taken for the seller header
seller_lines(text) ==
    LET SplitAt(top_block, marker) ==
            Take(top_block, IF marker # 0 THEN marker - 1 ELSE Min(2, Len(top_block)))
        Of(top_block) == SplitAt(top_block, FirstMarkerLine(top_block, 1))
    IN Of(Take(cleaned_lines(strip(text)), 8))

\* what the removal of the seller block leaves of the text
StripSellerBlock(normalized_text, seller_block_text) ==
    replace1(normalized_text, seller_block_text, "")

\* the seller fields and the text the later extractors work on
seller_block(text) ==
    LET Fields(normalized_text, lines, seller_block_text) ==
            IF lines = << >>
            THEN [seller_name |-> None, seller_address |-> None, seller_phone |-> None,
                  seller_email |-> None, seller_tax_id |-> None, seller_vat_reg |-> None,
                  normalized_text |-> normalized_text]
            ELSE [seller_name |-> lines[1],
                  seller_address |-> IF Len(lines) > 1 THEN join(" ", Tail(lines)) ELSE None,
                  seller_phone |-> found_group(SellerPhone, seller_block_text, ReI, 1, None),
                  seller_email |-> found_group(EmailPattern, seller_block_text, Re0, 1, None),
                  seller_tax_id |-> found_group(SellerTax, seller_block_text, ReI, 1, None),
                  seller_vat_reg |-> found_group(SellerVat, seller_block_text, ReI, 1, None),
                  normalized_text |-> StripSellerBlock(normalized_text, seller_block_text)]
        Of(normalized_text, lines) == Fields(normalized_text, lines, join("\n", lines))
    IN Of(strip(text), seller_lines(text))

(***************************************************************************)
(* parse_invoice_data: extract_field_value, the value that follows a label.*)
(***************************************************************************)
FieldSameLine(label) ==
    Cat(<<label, Star(Space), Set({":", "="}), Star(Space), Grp(1,
      Plus(Not({"\n", ":", "{"})))>>)

StartsWithStop ==
    Cat(<<Bol, Alt(<<Lit("Tel"), Lit("Fax"), Lit("Del"), Lit("Ref"),
      Lit("Date"), Lit("Kind"), Lit("Attended"), Lit("Type"), Lit("Payment"),
      Lit("Delivery"), Lit("Reference"), Lit("PI"), Lit("Cust"), Lit("Qty"),
      Lit("Rate"), Lit("Value"), Lit("Address"), Lit("Customer"),
      Lit("Code")>>), WB>>)

FieldSpaced(label) ==
    Cat(<<label, Plus(Space), NotAhead(Set({":", "="})), Grp(1,
      Cat(<<Set(UpperChars), RepLazy(Not({"\n", ":", "{"}), 0, Inf)>>)),
      Ahead(Alt(<<Cat(<<Lit("\n"), Set(UpperChars)>>), Cat(<<Space, Grp(2,
      Lit("2,")), Set(UpperChars)>>), Cat(<<Lit("\n"), Eol>>), Eol>>))>>)

FieldInLine(label) ==
    Cat(<<label, Star(Space), Opt(Set({":", "="})), Star(Space), Grp(1,
      Plus(Dot)), Eol>>)

StopLabelLine ==
    Cat(<<Bol, Alt(<<Lit("Tel"), Lit("Fax"), Lit("Del"), Lit("Ref"),
      Lit("Date"), Lit("Kind"), Lit("Attended"), Lit("Type"), Lit("Payment"),
      Lit("Delivery"), Lit("Reference"), Lit("PI"), Lit("Cust"), Lit("Qty"),
      Lit("Rate"), Lit("Value"), Lit("Address"), Lit("Customer"),
      Lit("Code")>>), Star(Space), Set({":", "="})>>)

RECURSIVE NextValueLine(_, _, _, _)
\* strategy 3, inner loop: the first non-blank line at distance j..limit-1
\* after line i, None when a line that starts a new label comes first
NextValueLine(lines, i, j, limit) ==
    IF j >= limit THEN None
    ELSE LET Look(next_line) ==
                 IF next_line = "" THEN NextValueLine(lines, i, j + 1, limit)
                 ELSE IF match(StopLabelLine, next_line, ReI).ok THEN None
                 ELSE next_line
         IN Look(strip(lines[i + j]))

RECURSIVE ValueNearLabel(_, _, _, _)
\* strategy 3: the label lines from line i on, each with the rest of its line
\* and then the lines after it
ValueNearLabel(label, lines, i, max_distance) ==
    IF i > Len(lines) THEN None
    ELSE IF ~search(label, lines[i], ReI).ok
    THEN ValueNearLabel(label, lines, i + 1, max_distance)
    ELSE LET Pick(value, near) ==
                 IF value # "" /\ upper(value) \notin {":", "=", ""} THEN value
                 ELSE IF near # None THEN near
                 ELSE ValueNearLabel(label, lines, i + 1, max_distance)
         IN Pick(found_group(FieldInLine(label), lines[i], ReI, 1, ""),
                 NextValueLine(lines, i, 1, Min(max_distance, Len(lines) - (i - 1))))

RECURSIVE FieldValueFrom(_, _, _, _)
FieldValueFrom(label_patterns, k, search_text, max_distance) ==
    IF k > Len(label_patterns) THEN None
    ELSE LET Pick(v1, v2, v3) ==
                 IF v1 # "" /\ ~match(StartsWithStop, v1, ReI).ok THEN v1
                 ELSE IF v2 # "" /\ ~match(StartsWithStop, v2, ReI).ok /\ Len(v2) > 2 THEN v2
                 ELSE IF v3 # None THEN v3
                 ELSE FieldValueFrom(label_patterns, k + 1, search_text, max_distance)
         IN Pick(found_group(FieldSameLine(label_patterns[k]), search_text, ReIM, 1, ""),
                 found_group(FieldSpaced(label_patterns[k]), search_text, ReIM, 1, ""),
                 ValueNearLabel(label_patterns[k], split(search_text, "\n"), 1, max_distance))

extract_field_value(label_patterns, search_text, max_distance) ==
    FieldValueFrom(label_patterns, 1, search_text, max_distance)

(***************************************************************************)
(* parse_invoice_data: customer name and address.                          *)
(***************************************************************************)
\* any(k in text for k in keywords)
ContainsAny(str, keywords) == \E k \in keywords : contains(str, k)

\* str.isupper(): some cased character and no lower-case one
isupper(str) ==
    /\ \E i \in 1..Len(str) : Ch(str, i) \in UpperChars
    /\ \A i \in 1..Len(str) : Ch(str, i) \notin LowerChars

is_likely_customer_name(str) ==
    LET text_lower == lower(str)
        address_keywords == {"street", "avenue", "road", "box", "p.o", "po box", "floor",
                             "apt", "suite", "district", "region", "city", "zip",
                             "postal code", "building"}
        company_indicators == {"ltd", "inc", "corp", "co", "company", "llc", "limited",
                               "enterprise", "trading", "group", "industries", "services",
                               "solutions", "consulting"}
        has_company_indicator == ContainsAny(text_lower, company_indicators)
        is_well_formatted == Len(str) > 2 /\ (Ch(str, 1) \in UpperChars \/ isupper(str))
    IN /\ str # None /\ str # ""
       /\ ~ContainsAny(text_lower, address_keywords)
       /\ is_well_formatted
       /\ Len(str) >= 4
       /\ (has_company_indicator \/ ~contains(str, " ") \/ Len(words(str)) <= 5)

HasDigits == Plus(Digit)

is_likely_address(str) ==
    LET text_lower == lower(str)
        address_indicators == {"street", "avenue", "road", "box", "p.o", "po box", "floor",
                               "apt", "suite", "district", "region", "city", "country",
                               "zip", "postal", "dar", "dar-es", "tanzania", "nairobi",
                               "kenya", "building"}
        has_indicators == ContainsAny(text_lower, address_indicators)
        has_numbers == search(HasDigits, str, Re0).ok
        has_multipart == contains(str, ",") \/ contains(str, " ")
    IN /\ str # None /\ str # ""
       /\ (has_indicators \/ (has_numbers /\ has_multipart /\ Len(str) > 5))

CustomerNamePattern ==
    Cat(<<Lit("Customer"), Plus(Space), Lit("Name"), Star(Space),
      Opt(Set({":", "="})), Star(Space), Grp(1, Cat(<<Set(UpperChars),
      RepLazy(Not({"\n"}), 0, Inf)>>)), Ahead(Alt(<<Lit("\n"), Eol>>))>>)

LeadingCustomerLabel ==
    Cat(<<Bol, Lit("Customer"), Star(Space), Lit("Nam"), Opt(Lit("e")),
      Star(Space), Opt(Set({":", "="})), Star(Space)>>)

TrailingCustomerLabel ==
    Cat(<<Plus(Space), Lit("Customer"), Star(Space), Lit("Nam"),
      Opt(Lit("e")), Star(Dot), Eol>>)

TrailingFieldLabel ==
    Cat(<<Plus(Space), Alt(<<Lit("Reference"), Cat(<<Lit("Ref"),
      Opt(Lit("."))>>), Lit("Address"), Lit("Tel"), Lit("Phone"), Lit("Fax"),
      Lit("Email"), Lit("Attended"), Lit("Kind"), Lit("Code"), Lit("PI"),
      Lit("Date"), Lit("Cust"), Lit("Del."), Lit("Type"), Lit("Qty"),
      Lit("Rate"), Lit("Value")>>), WB, Star(Dot), Eol>>)

IsFieldLabel ==
    Cat(<<Bol, Alt(<<Lit("Address"), Lit("Tel"), Lit("Fax"), Lit("Email"),
      Lit("Phone"), Lit("Reference")>>), WB>>)

CustomerNameLabel ==
    Cat(<<Lit("Customer"), Star(Space), Lit("Name"), Star(Space),
      Opt(Lit(":"))>>)

CustomerNameLabelPrefix ==
    Cat(<<Bol, Lit("Customer"), Star(Space), Lit("Name"), Star(Space),
      Opt(Lit(":")), Star(Space)>>)

BillTo == Cat(<<Lit("Bill"), Star(Space), Lit("To")>>)

BuyerName == Cat(<<Lit("Buyer"), Star(Space), Lit("Name")>>)

ClientName == Cat(<<Lit("Client"), Star(Space), Lit("Name")>>)

\* strategy 1: the text after an explicit "Customer Name" label
CustomerByLabel(normalized_text) ==
    LET Valid(customer_name) ==
            IF /\ customer_name # "" /\ Len(customer_name) > 3
               /\ upper(customer_name) \notin {"REFERENCE", "ADDRESS", "TEL", "FAX", "EMAIL"}
               /\ ~match(IsFieldLabel, customer_name, ReI).ok
            THEN customer_name
            ELSE None
        Clean(customer_name) ==
            Valid(strip(sub(TrailingFieldLabel, "",
                  strip(sub(TrailingCustomerLabel, "",
                        strip(sub(LeadingCustomerLabel, "", customer_name, ReI)), ReI)), ReI)))
        Of(m) == IF ~m.ok THEN None ELSE Clean(strip(group(m, normalized_text, 1)))
    IN Of(search(CustomerNamePattern, normalized_text, ReIM))

RECURSIVE CandidateFrom(_, _, _)
\* strategy 2, inner loop: lines j .. last
CandidateFrom(lines_data, j, last) ==
    IF j > last THEN None
    ELSE LET Try(candidate) ==
                 IF candidate # "" /\ is_likely_customer_name(candidate) /\ Len(candidate) > 3
                 THEN candidate
                 ELSE CandidateFrom(lines_data, j + 1, last)
         IN Try(strip(sub(CustomerNameLabelPrefix, "", strip(lines_data[j]), ReI)))

RECURSIVE CustomerNearLabel(_, _)
\* strategy 2: a name-like line among the label line and the three after it
CustomerNearLabel(lines_data, i) ==
    IF i > Len(lines_data) THEN None
    ELSE IF ~search(CustomerNameLabel, lines_data[i], ReI).ok
    THEN CustomerNearLabel(lines_data, i + 1)
    ELSE LET Pick(c) == IF c # None THEN c ELSE CustomerNearLabel(lines_data, i + 1)
         IN Pick(CandidateFrom(lines_data, i, Min(i + 3, Len(lines_data))))

\* bool(s) of a string or None
Truthy(str) == str # None /\ str # ""

\* the value a strategy found, or else what the next strategy finds
OrElse(value, next) == IF Truthy(value) THEN value ELSE next

\* the customer name before the address is looked at
customer_name_of(normalized_text) ==
    LET Checked(customer_name) ==
            IF ~Truthy(customer_name) THEN customer_name
            ELSE IF is_likely_address(customer_name) /\ ~is_likely_customer_name(customer_name)
            THEN None
            ELSE IF Len(customer_name) > 200 THEN None
            ELSE customer_name
    IN Checked(OrElse(OrElse(CustomerByLabel(normalized_text),
                             CustomerNearLabel(split(normalized_text, "\n"), 1)),
                      extract_field_value(<<BillTo, BuyerName, ClientName>>, normalized_text, 10)))

PoBox ==
    Cat(<<Lit("P"), Alt(<<Cat(<<Opt(Lit(".")), Star(Space), Lit("O"),
      Opt(Lit(".")), Star(Space), Lit("B")>>), Cat(<<Opt(Lit(".")), Lit("O"),
      Opt(Lit(".")), Star(Space), Lit("BOX")>>), Lit("OB"), Lit(".O")>>)>>)

PoBoxNumber ==
    Cat(<<Lit("P"), Alt(<<Cat(<<Opt(Lit(".")), Star(Space), Lit("O"),
      Opt(Lit(".")), Star(Space), Lit("B")>>), Cat(<<Opt(Lit(".")), Lit("O"),
      Opt(Lit(".")), Star(Space), Lit("BOX")>>), Lit("OB"), Lit(".O")>>),
      RepLazy(Dot, 0, Inf), Grp(1, Rep(Digit, 3, Inf))>>)

AddressStopA ==
    Cat(<<Bol, Alt(<<Lit("Tel"), Lit("Fax"), Lit("Attended"), Lit("Kind"),
      Lit("Reference"), Lit("PI"), Lit("Code"), Lit("Type"), Lit("Date"),
      Lit("Email"), Lit("Phone"), Lit("Del"), Lit("Customer"), Lit("Cust"),
      Lit("Ref"), Lit("Invoice"), Lit("Proforma")>>)>>)

CityA ==
    Cat(<<WB, Grp(1, Alt(<<Lit("DAR"), Lit("DAR-ES-SALAAM"), Lit("SALAAM"),
      Lit("NAIROBI"), Lit("KAMPALA"), Lit("KIGALI"), Lit("MOMBASA"),
      Lit("MOSHI"), Lit("ARUSHA"), Lit("DODOMA")>>)), WB>>)

Country ==
    Cat(<<WB, Grp(1, Alt(<<Lit("TANZANIA"), Lit("KENYA"), Lit("UGANDA"),
      Lit("RWANDA"), Lit("BURUNDI"), Lit("CONGO"), Lit("MALAWI"),
      Lit("ZAMBIA")>>)), WB>>)

CapsLine ==
    Cat(<<Bol, Set(UpperChars),
      Star(Set(UpperChars \cup SpaceChars \cup {"-", ".", ","})), Eol>>)

AddressLabelEnd ==
    Cat(<<WB, Lit("Address"), Star(Space), Opt(Set({":", "="})), Star(Space),
      Eol>>)

AddressLabelValue ==
    Cat(<<WB, Lit("Address"), Star(Space), Set({":", "="}), Star(Space),
      Grp(1, Plus(Not({"\n"})))>>)

AddressStopB ==
    Cat(<<Bol, Alt(<<Lit("Tel"), Lit("Fax"), Lit("Attended"), Lit("Kind"),
      Lit("Reference"), Lit("PI"), Lit("Code"), Lit("Type"), Lit("Date"),
      Lit("Email"), Lit("Phone"), Lit("Del"), Lit("Customer"), Lit("Cust"),
      Lit("Remarks"), Lit("Payment"), Lit("Delivery"), Lit("Ref"),
      Lit("Invoice"), Lit("Proforma")>>)>>)

CityC ==
    Cat(<<WB, Grp(1, Alt(<<Lit("DAR"), Lit("DAR-ES-SALAAM"), Lit("NAIROBI"),
      Lit("KAMPALA"), Lit("KIGALI"), Lit("MOMBASA"), Lit("MOSHI"),
      Lit("ARUSHA"), Lit("DODOMA")>>)), WB>>)

AddressStopC ==
    Cat(<<Bol, Alt(<<Lit("Tel"), Lit("Fax"), Lit("Email"), Lit("Phone"),
      Lit("Address"), Lit("Reference"), Lit("Code"), Lit("Type"),
      Lit("Date"), Lit("Attended"), Lit("Kind"), Lit("Cust"),
      Lit("Ref")>>)>>)

OneDigit == Digit

RECURSIVE BoxLinesFrom(_, _, _)
\* the lines absorbed after a P.O.BOX line: j .. last
BoxLinesFrom(lines, j, last) ==
    IF j > last THEN << >>
    ELSE LET Look(next_line) ==
                 IF next_line = "" THEN BoxLinesFrom(lines, j + 1, last)
                 ELSE IF match(AddressStopA, next_line, ReI).ok THEN << >>
                 ELSE IF \/ search(CityA, next_line, ReI).ok
                         \/ search(Country, next_line, ReI).ok
                         \/ Len(next_line) > 2
                            /\ (isupper(next_line) \/ match(CapsLine, next_line, Re0).ok)
                 THEN << next_line >> \o BoxLinesFrom(lines, j + 1, last)
                 ELSE IF Len(next_line) < 3 THEN BoxLinesFrom(lines, j + 1, last)
                 ELSE << >>
         IN Look(strip(lines[j]))

RECURSIVE AddressByBox(_, _)
\* pattern 1: a postal box line and the place lines after it
AddressByBox(lines, idx) ==
    IF idx > Len(lines) THEN None
    ELSE LET Pick(address) == IF Len(address) > 8 THEN address
                                ELSE AddressByBox(lines, idx + 1)
             Of(box_match) ==
                 IF search(PoBox, lines[idx], ReI).ok /\ box_match.ok
                 THEN Pick(strip(join(" ", << "P.O.BOX " \o group(box_match, lines[idx], 1) >>
                                 \o BoxLinesFrom(lines, idx + 1, Min(idx + 6, Len(lines))))))
                 ELSE AddressByBox(lines, idx + 1)
         IN Of(search(PoBoxNumber, lines[idx], ReI))

RECURSIVE LabelLinesFrom(_, _, _)
LabelLinesFrom(lines, j, last) ==
    IF j > last THEN << >>
    ELSE LET Look(next_line) ==
                 IF next_line = "" \/ match(AddressStopB, next_line, ReI).ok THEN << >>
                 ELSE << next_line >> \o LabelLinesFrom(lines, j + 1, last)
         IN Look(strip(lines[j]))

RECURSIVE AddressByLabel(_, _)
\* pattern 2: an "Address" label, the rest of its line and the lines after it
AddressByLabel(lines, idx) ==
    IF idx > Len(lines) THEN None
    ELSE LET Pick(address_parts, address) ==
                 IF address_parts # << >> /\ address # "" THEN address
                 ELSE AddressByLabel(lines, idx + 1)
             Parts(address_parts) == Pick(address_parts, strip(join(" ", address_parts)))
             Of(has_label, addr_text) ==
                 IF has_label
                 THEN Parts((IF addr_text # "" THEN << addr_text >> ELSE << >>)
                            \o LabelLinesFrom(lines, idx + 1, Min(idx + 6, Len(lines))))
                 ELSE AddressByLabel(lines, idx + 1)
         IN Of(search(AddressLabelEnd, lines[idx], ReI).ok
               \/ search(AddressLabelValue, lines[idx], ReI).ok,
               found_group(AddressLabelValue, lines[idx], ReI, 1, ""))

RECURSIVE CityLinesFrom(_, _, _)
CityLinesFrom(lines, j, last) ==
    IF j > last THEN << >>
    ELSE LET Look(next_line) ==
                 IF next_line = "" \/ match(AddressStopC, next_line, ReI).ok THEN << >>
                 ELSE IF search(Country, next_line, ReI).ok THEN << next_line >>
                 ELSE IF Len(next_line) > 2
                         /\ (isupper(next_line) \/ search(OneDigit, next_line, Re0).ok)
                 THEN << next_line >> \o CityLinesFrom(lines, j + 1, last)
                 ELSE << >>
         IN Look(strip(lines[j]))

RECURSIVE AddressByCity(_, _)
\* fallback: a line with a known city name and the country line after it
AddressByCity(lines, idx) ==
    IF idx > Len(lines) THEN None
    ELSE LET Pick(address) == IF address # "" THEN address ELSE AddressByCity(lines, idx + 1)
         IN IF search(CityC, lines[idx], ReI).ok
            THEN Pick(strip(join(" ", << lines[idx] >>
                            \o CityLinesFrom(lines, idx + 1, Min(idx + 3, Len(lines))))))
            ELSE AddressByCity(lines, idx + 1)

\* the address before the customer name is taken out of it
address_of(normalized_text) ==
    LET Of(lines) == OrElse(OrElse(AddressByBox(lines, 1), AddressByLabel(lines, 1)),
                            AddressByCity(lines, 1))
    IN Of(cleaned_lines(normalized_text))

\* customer name and address after the cross-check between the two
customer_and_address(normalized_text) ==
    LET Rest(address) == IF address = "" \/ Len(address) < 3 THEN None ELSE address
        Fix(customer_name, address, potential_name) ==
            IF ~Truthy(customer_name) /\ Truthy(address) /\ is_likely_customer_name(potential_name)
            THEN [customer_name |-> potential_name,
                  address |-> Rest(strip(sub(Cat(<<Bol, Lit(potential_name), Star(Space)>>), "",
                                             address, Re0)))]
            ELSE [customer_name |-> customer_name, address |-> address]
        Of(customer_name, address) ==
            Fix(customer_name, address,
                IF contains(address, "\n") THEN split(address, "\n")[1]
                ELSE join(" ", Take(words(address), 3)))
    IN Of(customer_name_of(normalized_text), address_of(normalized_text))

(***************************************************************************)
(* parse_invoice_data: monetary amounts.                                   *)
(***************************************************************************)
NotAmountChar == Not(DigitChars \cup {".", ",", "-"})

\* Decimal(cleaned.replace(',', '')) unless nothing or a lone mark is left
decimal_of_cleaned(cleaned) ==
    IF cleaned # "" /\ cleaned \notin {".", ",", "-"}
    THEN DecimalOf(sub(Lit(","), "", cleaned, Re0))
    ELSE NullDec

to_decimal(str) ==
    IF Truthy(str) THEN decimal_of_cleaned(strip(sub(NotAmountChar, "", str, Re0)))
    ELSE NullDec

AmountColon(label) ==
    Cat(<<label, Star(Space), Lit(":"), Star(Space), Opt(Alt(<<Lit("TSH"),
      Lit("TZS"), Lit("UGX")>>)), Star(Space), Grp(1,
      Plus(Set(DigitChars \cup {",", "."})))>>)

AmountEquals(label) ==
    Cat(<<label, Star(Space), Lit("="), Star(Space), Opt(Alt(<<Lit("TSH"),
      Lit("TZS"), Lit("UGX")>>)), Star(Space), Grp(1,
      Plus(Set(DigitChars \cup {",", "."})))>>)

AmountSpace(label) ==
    Cat(<<label, Plus(Space), Opt(Alt(<<Lit("TSH"), Lit("TZS"),
      Lit("UGX")>>)), Star(Space), Grp(1, Plus(Set(DigitChars \cup {",",
      "."})))>>)

AmountSameLine(label) ==
    Cat(<<label, Star(Space), Opt(Set({":", "="})), Star(Space), Grp(1,
      Plus(Set(DigitChars \cup {",", "."})))>>)

AmountNextLine ==
    Cat(<<Bol, Opt(Alt(<<Lit("TSH"), Lit("TZS"), Lit("UGX")>>)), Star(Space),
      Grp(1, Plus(Set(DigitChars \cup {",", "."})))>>)

\* the amount at the start of the line at distance j after line i, None if none
AmountAfter(lines, i, j) ==
    IF i + j > Len(lines) THEN None
    ELSE LET Pick(next_line, m) == IF m.ok THEN group(m, next_line, 1) ELSE None
             Of(next_line) == Pick(next_line, match(AmountNextLine, next_line, ReI))
         IN Of(strip(lines[i + j]))

RECURSIVE AmountInLines(_, _, _)
\* the label found in a line: the amount on that line or on one of the next two
AmountInLines(label, lines, i) ==
    IF i > Len(lines) THEN None
    ELSE IF ~search(label, lines[i], ReI).ok THEN AmountInLines(label, lines, i + 1)
    ELSE LET m == search(AmountSameLine(label), lines[i], ReI) IN
         IF m.ok THEN group(m, lines[i], 1)
         ELSE IF AmountAfter(lines, i, 1) # None THEN AmountAfter(lines, i, 1)
         ELSE IF AmountAfter(lines, i, 2) # None THEN AmountAfter(lines, i, 2)
         ELSE AmountInLines(label, lines, i + 1)

RECURSIVE FindAmountFrom(_, _, _)
FindAmountFrom(label_patterns, k, normalized_text) ==
    IF k > Len(label_patterns) THEN None
    ELSE LET label == label_patterns[k]
             m1 == search(AmountColon(label), normalized_text, ReIM)
             m2 == search(AmountEquals(label), normalized_text, ReIM)
             m3 == search(AmountSpace(label), normalized_text, ReIM)
             v4 == AmountInLines(label, split(normalized_text, "\n"), 1)
         IN IF m1.ok THEN group(m1, normalized_text, 1)
            ELSE IF m2.ok THEN group(m2, normalized_text, 1)
            ELSE IF m3.ok THEN group(m3, normalized_text, 1)
            ELSE IF v4 # None THEN v4
            ELSE FindAmountFrom(label_patterns, k + 1, normalized_text)

find_amount(label_patterns, normalized_text) ==
    FindAmountFrom(label_patterns, 1, normalized_text)

SubtotalLabels ==
    << Cat(<<Lit("Net"), Star(Space), Lit("Value")>>),
       Cat(<<Lit("Net"), Star(Space), Lit("Amount")>>),
       Lit("Subtotal"),
       Cat(<<Lit("Net"), Star(Space), Lit(":")>>) >>

TaxLabels ==
    << Lit("VAT"), Lit("Tax"), Lit("GST"), Cat(<<Lit("Sales"), Star(Space), Lit("Tax")>>) >>

TotalLabels ==
    << Cat(<<Lit("Gross"), Star(Space), Lit("Value")>>),
       Cat(<<Lit("Total"), Star(Space), Lit("Amount")>>),
       Cat(<<Lit("Grand"), Star(Space), Lit("Total")>>),
       Cat(<<Lit("Total"), Star(Space), Set(SpaceChars \cup {":"})>>) >>

(***************************************************************************)
(* Python floats of the item table: a non-negative decimal coef / 10^frac  *)
(* without trailing zeros in the fraction.                                 *)
(***************************************************************************)
RECURSIVE Pow10(_)
Pow10(n) == IF n = 0 THEN 1 ELSE 10 * Pow10(n - 1)

RECURSIVE Normal(_, _)
Normal(coef, frac) ==
    IF frac > 0 /\ coef % 10 = 0 THEN Normal(coef \div 10, frac - 1)
    ELSE [coef |-> coef, frac |-> frac]

\* float(d) of a Decimal
FloatOfDecimal(d) == Normal(d.coef, d.frac)

\* float(str) for digits with an optional dot
FloatOf(str) == FloatOfDecimal(DecimalOf(str))

\* float(n) of an int
FloatOfInt(n) == [coef |-> n, frac |-> 0]

FloatLess(a, b) ==
    IF a.coef \div Pow10(a.frac) # b.coef \div Pow10(b.frac)
    THEN a.coef \div Pow10(a.frac) < b.coef \div Pow10(b.frac)
    ELSE (a.coef % Pow10(a.frac)) * Pow10(b.frac) < (b.coef % Pow10(b.frac)) * Pow10(a.frac)

\* x == int(x)
IsWhole(x) == x.frac = 0

RECURSIVE NatStr(_)
\* str(n) of a natural number
NatStr(n) ==
    IF n < 10 THEN Ch("0123456789", n + 1)
    ELSE NatStr(n \div 10) \o Ch("0123456789", (n % 10) + 1)

RECURSIVE Zeros(_)
Zeros(n) == IF n <= 0 THEN "" ELSE "0" \o Zeros(n - 1)

\* str(x) of a float: repr switches to exponent notation below 0.0001
FloatStr(x) ==
    LET digits == NatStr(x.coef)
        exp == x.frac - (Len(digits) - 1)
        int == x.coef \div Pow10(x.frac)
        fr == NatStr(x.coef % Pow10(x.frac))
    IN IF x.frac = 0 THEN digits \o ".0"
       ELSE IF exp >= 5
       THEN Ch(digits, 1) \o (IF Len(digits) > 1 THEN "." \o SubSeq(digits, 2, Len(digits)) ELSE "")
            \o "e-" \o (IF exp < 10 THEN "0" ELSE "") \o NatStr(exp)
       ELSE NatStr(int) \o "." \o Zeros(x.frac - Len(fr)) \o fr

\* the quotient of a float by an int, kept as an exact fraction; null for None
NoRatio == [null |-> TRUE, num |-> 0, den |-> 1]

Ratio(x, n) == [null |-> FALSE, num |-> x.coef, den |-> n * Pow10(x.frac)]

(***************************************************************************)
(* parse_invoice_data: the line items.                                     *)
(***************************************************************************)
KwSerial ==
    Cat(<<WB, Alt(<<Lit("Sr"), Lit("S.N"), Lit("Serial"), Cat(<<Lit("No"),
      Opt(Lit("."))>>)>>), WB>>)

KwItem == Cat(<<WB, Alt(<<Lit("Item"), Lit("Code")>>), WB>>)

KwDescription == Cat(<<WB, Alt(<<Lit("Description"), Lit("Desc")>>), WB>>)

KwQuantity ==
    Cat(<<WB, Alt(<<Lit("Qty"), Lit("Quantity"), Cat(<<Lit("Qty"),
      Opt(Lit("."))>>), Lit("Type")>>), WB>>)

KwRate ==
    Cat(<<WB, Alt(<<Lit("Rate"), Lit("Price"), Lit("Unit"),
      Lit("UnitPrice")>>), WB>>)

KwValue == Cat(<<WB, Alt(<<Lit("Value"), Lit("Amount"), Lit("Total")>>), WB>>)

TotalsMarker ==
    Alt(<<Cat(<<Lit("Net"), Star(Space), Lit("Value")>>), Cat(<<Lit("Gross"),
      Star(Space), Lit("Value")>>), Cat(<<Lit("Grand"), Star(Space),
      Lit("Total")>>), Cat(<<Lit("Total"), Star(Space), Lit(":")>>),
      Lit("Payment"), Lit("Delivery"), Lit("Remarks"), Lit("NOTE")>>)

NumberToken ==
    Cat(<<Plus(Set(DigitChars \cup {","})), Opt(Lit(".")), Star(Digit)>>)

UnitToken ==
    Cat(<<WB, Grp(1, Alt(<<Lit("NOS"), Lit("PCS"), Lit("KG"), Lit("HR"),
      Lit("LTR"), Cat(<<Lit("PIECE"), Opt(Lit("S"))>>), Cat(<<Lit("UNIT"),
      Opt(Lit("S"))>>), Lit("BOX"), Lit("CASE"), Cat(<<Lit("SET"),
      Opt(Lit("S"))>>), Lit("PC"), Lit("KIT"), Lit("UNT")>>)), WB>>)

Letter == Set(UpperChars \cup LowerChars)

BareNumber ==
    Cat(<<Bol, Plus(Digit), Opt(Cat(<<Lit("."), Plus(Digit)>>)),
      Opt(Lit("%")), Star(Space), Eol>>)

SerialNumber == Cat(<<Bol, Grp(1, Rep(Digit, 1, 3)), Plus(Space)>>)

LeadingSerial == Cat(<<Bol, Rep(Digit, 1, 3), Plus(Space)>>)

LeadingCode == Cat(<<Bol, Grp(1, Rep(Digit, 3, 10)), Plus(Space)>>)

LeadingCodeText == Cat(<<Bol, Rep(Digit, 3, 10), Plus(Space)>>)

CodeCandidate == Cat(<<WB, Grp(1, Rep(Digit, 3, 10)), WB>>)

DecimalWord == Cat(<<Bol, Plus(Digit), Set({",", "."}), Plus(Digit)>>)

LongNumberWord == Cat(<<Bol, Rep(Digit, 4, Inf)>>)

UnitWord ==
    Cat(<<Bol, Grp(1, Alt(<<Lit("PCS"), Lit("NOS"), Lit("KG"), Lit("HR"),
      Lit("LTR"), Lit("PIECES"), Lit("UNITS"), Lit("KIT"), Lit("BOX"),
      Lit("CASE"), Lit("SETS"), Lit("PC"), Lit("UNT")>>)), Eol>>)

Spaces == Plus(Space)

KeywordCategories == << KwSerial, KwItem, KwDescription, KwQuantity, KwRate, KwValue >>

\* number of the six keyword categories of a table header found in the line
keyword_count(line_stripped) ==
    Cardinality({ k \in 1..Len(KeywordCategories) :
                    search(KeywordCategories[k], line_stripped, ReI).ok })

\* the float of one number token without its commas; nothing for "" and "."
FloatOfCleaned(cleaned) ==
    IF cleaned # "" /\ cleaned # "." THEN << FloatOf(cleaned) >> ELSE << >>

RECURSIVE FloatsOf(_)
\* the floats of the number tokens of a line
FloatsOf(numbers) ==
    IF numbers = << >> THEN << >>
    ELSE FloatOfCleaned(strip(sub(Lit(","), "", Head(numbers), Re0))) \o FloatsOf(Tail(numbers))

\* the larger of two floats, the first one when they are equal
Larger(a, b) == IF FloatLess(a, b) THEN b ELSE a

RECURSIVE MaxOf(_)
MaxOf(nums) ==
    IF Len(nums) = 1 THEN nums[1] ELSE Larger(nums[1], MaxOf(Tail(nums)))

RECURSIVE DescEnd(_, _)
\* index of the first word that ends the description, Len(words) + 1 if none
DescEnd(ws, i) ==
    IF i > Len(ws) THEN i
    ELSE IF \/ match(DecimalWord, ws[i], Re0).ok
            \/ Len(ws[i]) > 8 /\ match(LongNumberWord, ws[i], Re0).ok
            \/ match(UnitWord, ws[i], ReI).ok
    THEN i
    ELSE DescEnd(ws, i + 1)

HasLetter(w) == search(Letter, w, Re0).ok

\* the description when the words before the stop give none of two characters
meaningful_description(ws, full_description, desc_words) ==
    IF full_description # "" /\ Len(full_description) >= 2 THEN full_description
    ELSE IF desc_words # << >> THEN strip(join(" ", Take(desc_words, 15)))
    ELSE IF ws # << >> THEN ws[1]
    ELSE full_description

\* the description in the words of a row
description_in(ws) ==
    meaningful_description(ws, strip(join(" ", SubSeq(ws, 1, DescEnd(ws, 1) - 1))),
                           SelectSeq(Take(ws, 20), HasLetter))

\* the description of a row from the text left after serial number and code
description_of(description_text) ==
    Take(strip(sub(Spaces, " ", description_in(words(description_text)), Re0)), 255)

\* a whole number n, 0 < n < 1000, other than the maximum
IsQty(fn, max_num) == IsWhole(fn) /\ 0 < fn.coef /\ fn.coef < 1000 /\ fn # max_num

RECURSIVE QtyCandidate(_, _, _)
\* the smallest quantity among the numbers; 0 for None
QtyCandidate(nums, max_num, best) ==
    IF nums = << >> THEN best
    ELSE QtyCandidate(Tail(nums), max_num,
                      IF IsQty(Head(nums), max_num) /\ (best = 0 \/ Head(nums).coef < best)
                      THEN Head(nums).coef ELSE best)

\* quantity and value of a row with two numbers
two_numbers(n, max_num) ==
    IF FloatLess(n[1], FloatOfInt(100)) /\ IsWhole(n[1])
    THEN [qty |-> n[1].coef, value |-> n[2], rate |-> NoRatio]
    ELSE IF FloatLess(n[2], FloatOfInt(100)) /\ IsWhole(n[2])
    THEN [qty |-> n[2].coef, value |-> n[1], rate |-> NoRatio]
    ELSE [qty |-> 1, value |-> max_num, rate |-> NoRatio]

\* quantity, value and rate of a row with three numbers or more
many_numbers(max_num, qty_candidate) ==
    [qty |-> IF qty_candidate # 0 THEN qty_candidate ELSE 1,
     value |-> max_num,
     rate |-> IF qty_candidate # 0 /\ qty_candidate > 0 /\ max_num.coef > 0
              THEN Ratio(max_num, qty_candidate) ELSE NoRatio]

\* the quantity, the float that becomes the value, and the rate
picked_numbers(n, max_num) ==
    IF Len(n) = 1 THEN [qty |-> 1, value |-> n[1], rate |-> NoRatio]
    ELSE IF Len(n) = 2 THEN two_numbers(n, max_num)
    ELSE many_numbers(max_num, QtyCandidate(n, max_num, 0))

\* item['value'] = to_decimal(str(value))
valued(picked) ==
    [qty |-> picked.qty, value |-> to_decimal(FloatStr(picked.value)), rate |-> picked.rate]

\* quantity, value and rate from the numbers of a row
numeric_roles(numbers_for_parsing) ==
    valued(picked_numbers(numbers_for_parsing, MaxOf(numbers_for_parsing)))

\* a row is kept when it has a description and a value or a quantity above 1
KeepItem(item) ==
    Truthy(item.description) /\ (DecTruthy(item.value) \/ item.qty > 1)

\* items.append(item) when the row is kept
appended(item) == IF KeepItem(item) THEN << item >> ELSE << >>

item_of(full_description, roles, unit_value, item_code) ==
    [description |-> full_description, qty |-> roles.qty, unit |-> unit_value,
     value |-> roles.value, rate |-> roles.rate, code |-> item_code]

\* the row once its description and code are known
row_of_description(full_description, numbers_for_parsing, unit_value, item_code) ==
    IF full_description = "" \/ Len(full_description) < 2 THEN << >>
    ELSE IF numbers_for_parsing = << >> THEN << >>
    ELSE appended(item_of(full_description, numeric_roles(numbers_for_parsing),
                          unit_value, item_code))

\* code_candidates[0] if code_candidates else None
first_or_none(code_candidates) ==
    IF code_candidates # << >> THEN code_candidates[1] ELSE None

item_code_of(code_match, line_for_parsing) ==
    IF code_match.ok THEN group(code_match, line_for_parsing, 1)
    ELSE first_or_none(findall(CodeCandidate, line_for_parsing, Re0, 1))

description_text_of(code_match, line_for_parsing) ==
    IF code_match.ok THEN strip(sub(LeadingCodeText, "", line_for_parsing, Re0))
    ELSE line_for_parsing

\* the row once the leading code has been looked for
row_of_code(line_for_parsing, numbers_for_parsing, unit_value, code_match) ==
    row_of_description(description_of(description_text_of(code_match, line_for_parsing)),
                       numbers_for_parsing, unit_value,
                       item_code_of(code_match, line_for_parsing))

\* the row once the serial number has been taken off
row_of_line(line_for_parsing, numbers_for_parsing, unit_value) ==
    row_of_code(line_for_parsing, numbers_for_parsing, unit_value,
                search(LeadingCode, line_for_parsing, Re0))

\* int(str) of a string of digits
IntOf(str) == DigitsValue(str, Len(str))

\* the serial number at the start of the row, 0 when there is none
sr_no_value_of(sr_no_match, line_stripped) ==
    IF sr_no_match.ok THEN IntOf(group(sr_no_match, line_stripped, 1)) ELSE 0

row_with_sr_no(line_stripped, float_numbers, unit_value, has_sr_no, sr_no_value) ==
    row_of_line(IF has_sr_no THEN strip(sub(LeadingSerial, "", line_stripped, Re0))
                ELSE line_stripped,
                IF has_sr_no /\ float_numbers # << >>
                   /\ float_numbers[1] = FloatOfInt(sr_no_value)
                THEN Tail(float_numbers) ELSE float_numbers,
                unit_value)

row_of_sr_no(line_stripped, float_numbers, unit_value, sr_no_value) ==
    row_with_sr_no(line_stripped, float_numbers, unit_value,
                   sr_no_value # 0 /\ sr_no_value < 1000, sr_no_value)

\* one candidate row: << item >> when the row is appended, << >> when it is dropped
parse_row(line_stripped, float_numbers, unit_value) ==
    row_of_sr_no(line_stripped, float_numbers, unit_value,
                 sr_no_value_of(match(SerialNumber, line_stripped, Re0), line_stripped))

unit_value_of(unit_match, line_stripped) ==
    IF unit_match.ok THEN upper(group(unit_match, line_stripped, 1)) ELSE None

row_of_floats(line_stripped, is_likely_item_row, float_numbers, unit_value) ==
    IF /\ is_likely_item_row
       /\ ~(/\ unit_value # None \/ match(BareNumber, line_stripped, Re0).ok
            /\ Len(float_numbers) <= 2)
    THEN parse_row(line_stripped, float_numbers, unit_value)
    ELSE << >>

row_of_numbers(line_stripped, numbers, unit_value) ==
    row_of_floats(line_stripped,
                  Len(line_stripped) > 5 /\ numbers # << >>
                  /\ search(Letter, line_stripped, Re0).ok,
                  FloatsOf(numbers), unit_value)

\* the items of one line past the table header
row_items(line_stripped) ==
    row_of_numbers(line_stripped, findall(NumberToken, line_stripped, Re0, 0),
                   unit_value_of(search(UnitToken, line_stripped, ReI), line_stripped))

RECURSIVE ScanItems(_, _, _, _)
\* the scan over the lines: list_idx is the line looked at, item_header_idx the
\* index of the last table header seen (0 before the first)
ScanItems(line_data, list_idx, item_header_idx, items) ==
    IF list_idx > Len(line_data) THEN items
    ELSE LET line_stripped == line_data[list_idx]
             item_section_started == item_header_idx # 0
         IN IF keyword_count(line_stripped) >= 3
            THEN ScanItems(line_data, list_idx + 1, list_idx, items)
            ELSE IF /\ item_section_started /\ list_idx > item_header_idx + 1
                    /\ search(TotalsMarker, line_stripped, ReI).ok
            THEN items
            ELSE IF item_section_started /\ list_idx > item_header_idx
            THEN ScanItems(line_data, list_idx + 1, item_header_idx,
                           items \o row_items(line_stripped))
            ELSE ScanItems(line_data, list_idx + 1, item_header_idx, items)

items_of(normalized_text) ==
    ScanItems(cleaned_lines(normalized_text), 1, 0, << >>)

(***************************************************************************)
(* parse_invoice_data: the record returned.  Of the header it carries the  *)
(* fields the classification in extract_from_bytes reads and the address,  *)
(* which feeds the customer name.                                          *)
(***************************************************************************)
NullParse ==
    [customer_name |-> None, address |-> None, subtotal |-> NullDec, tax |-> NullDec,
     total |-> NullDec, items |-> << >>, seller_name |-> None]

\* the fields read from the text left after the seller block
parsed_fields(normalized_text, seller_name, ca) ==
    [customer_name |-> ca.customer_name,
     address |-> ca.address,
     subtotal |-> to_decimal(find_amount(SubtotalLabels, normalized_text)),
     tax |-> to_decimal(find_amount(TaxLabels, normalized_text)),
     total |-> to_decimal(find_amount(TotalLabels, normalized_text)),
     items |-> items_of(normalized_text),
     seller_name |-> seller_name]

parse_after_seller(seller) ==
    parsed_fields(seller.normalized_text, seller.seller_name,
                  customer_and_address(seller.normalized_text))

parse_invoice_data(text) ==
    IF text = "" \/ strip(text) = "" THEN NullParse
    ELSE parse_after_seller(seller_block(text))

(***************************************************************************)
(* Bounds and the inputs the model draws from.                             *)
(***************************************************************************)
\* pages per document a provider is given
MaxPages == 1

\* what get_text() / extract_text() returns for one page
PageTexts ==
    { "",
      " ",
      "Invoice\nhi\n",
      "Invoice\nVAT 0\n",
      "Invoice\nBill To: ACME\n" }

RECURSIVE SeqsUpTo(_, _)
SeqsUpTo(S, n) ==
    IF n = 0 THEN { << >> }
    ELSE LET shorter == SeqsUpTo(S, n - 1) IN
         shorter \cup { Append(q, x) : q \in { r \in shorter : Len(r) = n - 1 }, x \in S }

\* str(e) of an exception raised inside a provider
ErrorTexts == { "", "cannot open broken document" }

FileContents == { "", "%PDF-1.4 x", "GIF89a" }

FileNames == { "A.PDF", "x.txt", "s.jpg", "s.JPEG", "s.png", "s.gif", "s.tiff", "s.bmp",
               "a.pdf.png" }

(***************************************************************************)
(* State.                                                                  *)
(***************************************************************************)
VARIABLES
    fitz,           \* the module global fitz is not None
    PyPDF2,         \* the module global PyPDF2 is not None
    pc,             \* where the call of extract_from_bytes stands
    file_bytes,     \* arguments of extract_from_bytes
    filename,
    text,           \* the local text of extract_text_from_pdf / extract_from_bytes
    fitz_error,     \* locals of extract_text_from_pdf
    pdf2_error,
    raised,         \* message of the RuntimeError of extract_text_from_pdf, if raised
    parsed,         \* what parse_invoice_data returned, if it returned
    result,         \* the dict extract_from_bytes returns
    trace,          \* the provider and parser steps run so far, in order
    fitz_out,       \* how the PyMuPDF attempt ended and the text it left in text
    pdf2_out,       \* how the PyPDF2 attempt ended and the page text it had read
    calls,          \* the frames of the calls of parse_invoice_data
    row,            \* the locals of the parsing of one item row
    amount,         \* the argument of to_decimal and what came of it
    db,             \* the vehicle and order tables
    requests,       \* the frames of the api_start_order requests
    overdue,        \* the frame of a call of is_order_overdue
    lookup,         \* the frame of a call of extract_field_value
    scan,           \* the locals of the scan for the item table
    fields          \* the header fields read after the seller block

\* the variables of a call of extract_from_bytes
extract_vars == << fitz, PyPDF2, pc, file_bytes, filename, text, fitz_error, pdf2_error,
                   raised, parsed, result, trace, fitz_out, pdf2_out >>

\* the variables the other entry points work on
later_vars == << overdue, lookup, scan, fields >>

other_vars == << calls, row, amount, db, requests, later_vars >>

vars == << extract_vars, other_vars >>

NoResult == [success |-> FALSE, error |-> "<pending>", message |-> << >>, header |-> << >>,
             items |-> << >>, raw_text |-> ""]

NotRun == [st |-> "not run", out |-> ""]

(***************************************************************************)
(* extract_text_from_pdf.                                                  *)
(***************************************************************************)
RECURSIVE Accumulate(_, _)
\* for page in pages: if page_text: text += page_text
Accumulate(start, pages) ==
    IF pages = << >> THEN start
    ELSE Accumulate(IF Head(pages) # "" THEN start \o Head(pages) ELSE start, Tail(pages))

\* if text and text.strip()
HasText(str) == str # "" /\ strip(str) # ""

\* a fallback that goes on from the text the PyMuPDF attempt left behind
FallbackStartKept(left_over) == left_over

\* the text the PyPDF2 attempt starts from
FallbackStart(left_over) == ""

\* a provider that is tried again when it has not returned text
NextProviderRetry(provider) == provider

\* where extract_text_from_pdf goes on when a provider has not returned text
NextProvider(provider) == IF provider = "fitz" THEN "pypdf2" ELSE "raise"

\* the message of the RuntimeError raised when no provider returned text;
\* a message is the list of the parts the f-string puts together
error_msg(fitz_avail, pdf2_avail, ferr, perr) ==
    IF ~fitz_avail /\ ~pdf2_avail
    THEN << "No PDF extraction library available. Install PyMuPDF or PyPDF2." >>
    ELSE IF Truthy(ferr) /\ Truthy(perr)
    THEN << "PDF extraction failed - PyMuPDF: ", ferr, ". PyPDF2: ", perr >>
    ELSE IF Truthy(ferr) THEN << ferr >>
    ELSE IF Truthy(perr) THEN << perr >>
    ELSE << "Unknown PDF extraction error" >>

(***************************************************************************)
(* extract_from_bytes.                                                     *)
(***************************************************************************)
ImageSuffixes == { ".jpg", ".jpeg", ".png", ".gif", ".tiff", ".bmp" }

\* a PDF check that takes any leading bytes for the magic number
is_pdf_loose(bytes, name) == endswith(lower(name), ".pdf") \/ Take(bytes, 4) # ""

is_pdf(bytes, name) == endswith(lower(name), ".pdf") \/ Take(bytes, 4) = "%PDF"

\* an image check that compares the suffix without lower()
is_image_case_sensitive(name) == \E suffix \in ImageSuffixes : endswith(name, suffix)

is_image(name) == \E suffix \in ImageSuffixes : endswith(lower(name), suffix)

\* checks on the file that look at the suffix before the length
file_gate_suffix_first(bytes, name) ==
    IF is_image(name) THEN "image_file_not_supported"
    ELSE IF bytes = "" THEN "empty_file"
    ELSE IF ~is_pdf(bytes, name) THEN "unsupported_file_type"
    ELSE None

\* the error the checks on the file end the call with, None when the file passes
file_gate(bytes, name) ==
    IF bytes = "" THEN "empty_file"
    ELSE IF is_image(name) THEN "image_file_not_supported"
    ELSE IF ~is_pdf(bytes, name) THEN "unsupported_file_type"
    ELSE None

gate_message(error) ==
    IF error = "empty_file" THEN << "File is empty. Please upload a valid PDF file." >>
    ELSE IF error = "image_file_not_supported"
    THEN << "Image files are not supported. Please convert to PDF or enter details manually." >>
    ELSE << "Please upload a PDF file." >>

\* a failure dict that never carries the text
FailureWithoutText(error, message, raw_text) ==
    [success |-> FALSE, error |-> error, message |-> message, header |-> << >>,
     items |-> << >>, raw_text |-> ""]

Failure(error, message, raw_text) ==
    [success |-> FALSE, error |-> error, message |-> message, header |-> << >>,
     items |-> << >>, raw_text |-> raw_text]

\* the header dict built from the parsed record
header_of(p) ==
    [customer_name |-> p.customer_name, address |-> p.address,
     subtotal |-> p.subtotal, tax |-> p.tax, total |-> p.total]

\* the items in the shape extract_from_bytes returns them: 0.0 for a value of
\* 0 or None, None for a rate of 0 or None
transport_item(item) ==
    [description |-> item.description, qty |-> item.qty, unit |-> item.unit,
     code |-> item.code,
     value |-> IF DecTruthy(item.value) THEN FloatOfDecimal(item.value) ELSE FloatOfInt(0),
     rate |-> IF ~item.rate.null /\ item.rate.num # 0 THEN item.rate ELSE NoRatio]

transport_items(items) == [k \in 1..Len(items) |-> transport_item(items[k])]

has_customer(header) == Truthy(header.customer_name)

has_amounts(header) ==
    DecTruthy(header.subtotal) \/ DecTruthy(header.tax) \/ DecTruthy(header.total)

\* a classification whose failure dict keeps the header and items built
classify_keeping_data(p, raw_text) ==
    LET header == header_of(p)
        items == transport_items(p.items)
    IN IF has_customer(header) \/ Len(items) > 0 \/ has_amounts(header)
       THEN [success |-> TRUE, error |-> None,
             message |-> << "Invoice data extracted successfully" >>,
             header |-> header, items |-> items, raw_text |-> raw_text]
       ELSE [success |-> FALSE, error |-> "parsing_failed",
             message |-> << "Could not extract structured data from PDF. Please enter invoice details manually." >>,
             header |-> header, items |-> items, raw_text |-> raw_text]

\* lines 1161-1237: header, items and the check for meaningful data
classify(p, raw_text) ==
    LET header == header_of(p)
        items == transport_items(p.items)
    IN IF has_customer(header) \/ Len(items) > 0 \/ has_amounts(header)
       THEN [success |-> TRUE, error |-> None,
             message |-> << "Invoice data extracted successfully" >>,
             header |-> header, items |-> items, raw_text |-> raw_text]
       ELSE Failure("parsing_failed",
                    << "Could not extract structured data from PDF. Please enter invoice details manually." >>,
                    raw_text)

(***************************************************************************)
(* The call of extract_from_bytes, step by step.                           *)
(***************************************************************************)
LaterIdle ==
    /\ overdue = << >>
    /\ lookup = << >>
    /\ scan = << >>
    /\ fields = << >>

\* nothing but extract_from_bytes is called
OthersIdle ==
    /\ LaterIdle
    /\ calls = << >>
    /\ row = << >>
    /\ amount = << >>
    /\ db = << >>
    /\ requests = << >>

Init ==
    /\ fitz \in BOOLEAN
    /\ PyPDF2 \in BOOLEAN
    /\ pc = "start"
    /\ file_bytes = ""
    /\ filename = ""
    /\ text = ""
    /\ fitz_error = None
    /\ pdf2_error = None
    /\ raised = << >>
    /\ parsed = NullParse
    /\ result = NoResult
    /\ trace = << >>
    /\ fitz_out = NotRun
    /\ pdf2_out = NotRun
    /\ OthersIdle

\* lines 1089-1127: the checks on the file before any text is extracted
ValidateFile ==
    /\ UNCHANGED other_vars
    /\ pc = "start"
    /\ \E bytes \in FileContents, name \in FileNames :
         LET error == file_gate(bytes, name) IN
         /\ file_bytes' = bytes
         /\ filename' = name
         /\ IF error # None
            THEN /\ result' = Failure(error, gate_message(error), "")
                 /\ pc' = "done"
            ELSE /\ result' = result
                 /\ pc' = "fitz"
    /\ UNCHANGED << fitz, PyPDF2, text, fitz_error, pdf2_error, raised, parsed, trace,
                    fitz_out, pdf2_out >>

\* lines 44-63: the PyMuPDF attempt.  pages are the page texts the library
\* yields; fail = k > 0 is an exception raised once k - 1 pages were read
TryPyMuPDF ==
    /\ UNCHANGED other_vars
    /\ pc = "fitz"
    /\ IF ~fitz
       THEN /\ pc' = NextProvider("fitz")
            /\ UNCHANGED << text, fitz_error, trace, fitz_out >>
       ELSE \E pages \in SeqsUpTo(PageTexts, MaxPages), e \in ErrorTexts :
            \E fail \in 0..(Len(pages) + 1) :
              LET got == Accumulate("", IF fail = 0 THEN pages ELSE Take(pages, fail - 1)) IN
              /\ trace' = Append(trace, "fitz")
              /\ IF fail # 0
                 THEN /\ fitz_error' = e
                      /\ text' = ""
                      /\ fitz_out' = [st |-> "threw", out |-> ""]
                      /\ pc' = NextProvider("fitz")
                 ELSE IF HasText(got)
                 THEN /\ text' = got
                      /\ fitz_error' = fitz_error
                      /\ fitz_out' = [st |-> "returned", out |-> got]
                      /\ pc' = "validate_text"
                 ELSE /\ text' = got
                      /\ fitz_error' = "No text found in PDF (PyMuPDF)"
                      /\ fitz_out' = [st |-> "fell through", out |-> got]
                      /\ pc' = NextProvider("fitz")
    /\ UNCHANGED << fitz, PyPDF2, file_bytes, filename, pdf2_error, raised, parsed, result,
                    pdf2_out >>

\* lines 65-86: the PyPDF2 attempt; read is the page text PyPDF2 itself yielded
TryPyPDF2 ==
    /\ UNCHANGED other_vars
    /\ pc = "pypdf2"
    /\ IF ~PyPDF2
       THEN /\ text' = FallbackStart(text)
            /\ pc' = NextProvider("pypdf2")
            /\ UNCHANGED << pdf2_error, trace, pdf2_out >>
       ELSE \E pages \in SeqsUpTo(PageTexts, MaxPages), e \in ErrorTexts :
            \E fail \in 0..(Len(pages) + 1) :
              LET seen == IF fail = 0 THEN pages ELSE Take(pages, fail - 1)
                  got == IF fail = 1 \/ pages = << >> THEN FallbackStart(text)
                         ELSE Accumulate(FallbackStart(text), seen)
                  read == IF fail = 1 \/ pages = << >> THEN "" ELSE Accumulate("", seen)
              IN
              /\ trace' = Append(trace, "pypdf2")
              /\ text' = got
              /\ IF fail # 0
                 THEN /\ pdf2_error' = e
                      /\ pdf2_out' = [st |-> "threw", out |-> read]
                      /\ pc' = NextProvider("pypdf2")
                 ELSE IF pages = << >>
                 THEN /\ pdf2_error' = "PDF has no pages"
                      /\ pdf2_out' = [st |-> "fell through", out |-> read]
                      /\ pc' = NextProvider("pypdf2")
                 ELSE IF HasText(got)
                 THEN /\ pdf2_error' = pdf2_error
                      /\ pdf2_out' = [st |-> "returned", out |-> read]
                      /\ pc' = "validate_text"
                 ELSE /\ pdf2_error' = "No text found in PDF (PyPDF2)"
                      /\ pdf2_out' = [st |-> "fell through", out |-> read]
                      /\ pc' = NextProvider("pypdf2")
    /\ UNCHANGED << fitz, PyPDF2, file_bytes, filename, fitz_error, raised, parsed, result,
                    fitz_out >>

\* lines 88-98 and 1132-1142: RuntimeError raised by extract_text_from_pdf and
\* caught by extract_from_bytes
ExtractionFailed ==
    /\ UNCHANGED other_vars
    /\ pc = "raise"
    /\ raised' = error_msg(fitz, PyPDF2, fitz_error, pdf2_error)
    /\ result' = Failure("pdf_extraction_failed",
                         << "Could not extract text from PDF. Please enter invoice details manually." >>, "")
    /\ pc' = "done"
    /\ UNCHANGED << fitz, PyPDF2, file_bytes, filename, text, fitz_error, pdf2_error, parsed,
                    trace, fitz_out, pdf2_out >>

\* lines 1144-1155: the text returned by extract_text_from_pdf is checked
ValidateText ==
    /\ UNCHANGED other_vars
    /\ pc = "validate_text"
    /\ IF ~HasText(text)
       THEN /\ result' = Failure("no_text_extracted",
                                 << "No readable text found in PDF (possibly a scanned image). Please enter invoice details manually." >>, "")
            /\ pc' = "done"
       ELSE /\ result' = result
            /\ pc' = "parse"
    /\ UNCHANGED << fitz, PyPDF2, file_bytes, filename, text, fitz_error, pdf2_error, raised,
                    parsed, trace, fitz_out, pdf2_out >>

\* lines 1157-1248: parsing and classification; exc is an exception raised
\* somewhere inside the try block
ParseAndClassify ==
    /\ UNCHANGED other_vars
    /\ pc = "parse"
    /\ trace' = Append(trace, "parse")
    /\ \E exc \in BOOLEAN :
         IF exc
         THEN /\ parsed' = parsed
              /\ result' = Failure("parsing_failed",
                                   << "Could not extract structured data from PDF. Please enter invoice details manually." >>,
                                   text)
              /\ pc' = "failed"
         ELSE /\ parsed' = parse_invoice_data(text)
              /\ result' = classify(parsed', text)
              /\ pc' = "returned"
    /\ UNCHANGED << fitz, PyPDF2, file_bytes, filename, text, fitz_error, pdf2_error, raised,
                    fitz_out, pdf2_out >>

Next ==
    \/ ValidateFile
    \/ TryPyMuPDF
    \/ TryPyPDF2
    \/ ExtractionFailed
    \/ ValidateText
    \/ ParseAndClassify

Spec == Init /\ [][Next]_vars

(***************************************************************************)
(* Properties of extract_from_bytes.                                       *)
(***************************************************************************)
\* the call has returned its dict
Returned == pc \in { "done", "failed", "returned" }

\* extract_text_from_pdf has returned text to extract_from_bytes
TextAcquired == pc \in { "validate_text", "parse", "failed", "returned" }

HasImageSuffix(name) ==
    \E suffix \in { ".jpg", ".jpeg", ".png", ".gif", ".tiff", ".bmp" } :
        endswith(lower(name), suffix)

NoData(r) == DOMAIN r.header = {} /\ r.items = << >>

InMessage(part) == \E k \in 1..Len(result.message) : result.message[k] = part

Count(seq, x) == Cardinality({ k \in 1..Len(seq) : seq[k] = x })

\* C1: a call that reaches parsing without an exception succeeds if and only
\* if the customer name is non-null, or at least one item was parsed, or one
\* of subtotal, tax and total is non-null (an amount of 0 counts as non-null);
\* otherwise it fails with parsing_failed.
C1_SuccessIffAnySignal ==
    pc = "returned" =>
        LET signal == \/ parsed.customer_name # None
                      \/ Len(parsed.items) > 0
                      \/ ~parsed.subtotal.null
                      \/ ~parsed.tax.null
                      \/ ~parsed.total.null
        IN /\ result.success <=> signal
           /\ ~signal => result.error = "parsing_failed"

\* C2: every result with success = false, whichever check produced it, has
\* an empty header and no items.
C2_FailureCarriesNoData ==
    Returned /\ ~result.success =>
        /\ result.error \in { "empty_file", "image_file_not_supported",
                              "unsupported_file_type", "pdf_extraction_failed",
                              "no_text_extracted", "parsing_failed" }
        /\ NoData(result)

\* a failure decided after the parser had found an amount
C2_Witness ==
    /\ pc = "returned"
    /\ ~result.success
    /\ result.error = "parsing_failed"
    /\ ~parsed.tax.null
    /\ NoData(result)

\* C3: an empty byte buffer gives empty_file for every filename, also one
\* with a .pdf or an image suffix, and no text extraction is called.
C3_EmptyFile ==
    pc # "start" /\ file_bytes = "" =>
        /\ pc = "done"
        /\ ~result.success
        /\ result.error = "empty_file"
        /\ trace = << >>
        /\ fitz_out = NotRun /\ pdf2_out = NotRun

\* an empty buffer uploaded under an image name
C3_Witness ==
    /\ pc = "done"
    /\ file_bytes = ""
    /\ filename = "s.jpg"
    /\ result.error = "empty_file"

\* C4: non-empty bytes whose filename has neither a .pdf nor an image suffix
\* and whose first 4 bytes are not %PDF give unsupported_file_type with an
\* empty header and no items.
C4_UnsupportedFileType ==
    /\ pc # "start"
    /\ file_bytes # ""
    /\ ~endswith(lower(filename), ".pdf")
    /\ ~HasImageSuffix(filename)
    /\ SubSeq(file_bytes, 1, Min(4, Len(file_bytes))) # "%PDF"
    => /\ pc = "done"
       /\ ~result.success
       /\ result.error = "unsupported_file_type"
       /\ NoData(result)

C4_Witness ==
    /\ pc = "done"
    /\ file_bytes = "GIF89a"
    /\ filename = "x.txt"
    /\ result.error = "unsupported_file_type"

\* C5: non-empty bytes under an image-suffixed filename give
\* image_file_not_supported at once: no provider and no parser step has run,
\* also when the content starts with %PDF.
C5_ImageRejected ==
    pc # "start" /\ file_bytes # "" /\ HasImageSuffix(filename) =>
        /\ pc = "done"
        /\ ~result.success
        /\ result.error = "image_file_not_supported"
        /\ trace = << >>
        /\ fitz_out = NotRun /\ pdf2_out = NotRun
        /\ parsed = NullParse

\* PDF content under a name with an upper-case image suffix
C5_Witness ==
    /\ pc = "done"
    /\ file_bytes = "%PDF-1.4 x"
    /\ filename = "s.JPEG"
    /\ result.error = "image_file_not_supported"

\* every available provider came back without throwing and without text
\* that survives strip()
AllProvidersBlank ==
    /\ fitz \/ PyPDF2
    /\ fitz => fitz_out.st = "fell through"
    /\ PyPDF2 => pdf2_out.st = "fell through"

\* C6: when the text recovered from a PDF-shaped input is all whitespace
\* (every available provider returns empty-after-trim text without
\* throwing), the result is success = false with error no_text_extracted.
C6_BlankTextIsNoTextExtracted ==
    Returned /\ file_gate(file_bytes, filename) = None /\ AllProvidersBlank =>
        /\ ~result.success
        /\ result.error = "no_text_extracted"

C8_ProviderOrder ==
    /\ \A i, j \in 1..Len(trace) : i < j => ~(trace[i] = "pypdf2" /\ trace[j] = "fitz")
    /\ pdf2_out # NotRun =>
          \/ ~fitz
          \/ fitz_out.st = "threw"
          \/ fitz_out.st = "fell through" /\ ~HasText(fitz_out.out)
    /\ TextAcquired =>
          IF fitz /\ fitz_out.st = "returned"
          THEN /\ HasText(fitz_out.out)
               /\ text = fitz_out.out
               /\ pdf2_out = NotRun
          ELSE /\ PyPDF2 /\ pdf2_out.st = "returned"
               /\ HasText(pdf2_out.out)
               /\ text = pdf2_out.out

\* PyMuPDF left whitespace behind and PyPDF2 then returned text
C8_Witness ==
    /\ pc = "validate_text"
    /\ fitz_out = [st |-> "fell through", out |-> " "]
    /\ pdf2_out.st = "returned"
    /\ text = pdf2_out.out
    /\ trace = << "fitz", "pypdf2" >>

\* C9: when every provider fails or is unavailable, the failure returned to
\* the caller carries a message that names each failed provider's failure
\* reason, or says that no provider is available when none is installed.
C9_MessageNamesReasons ==
    pc = "done" /\ result.error = "pdf_extraction_failed" =>
        IF ~fitz /\ ~PyPDF2
        THEN InMessage("No PDF extraction library available. Install PyMuPDF or PyPDF2.")
        ELSE /\ fitz => InMessage(fitz_error)
             /\ PyPDF2 => InMessage(pdf2_error)

\* C10: within one call each provider is invoked at most once, and once a
\* failure result has been decided no provider or parser step runs again.
C10_NoRetry ==
    /\ [](Count(trace, "fitz") <= 1 /\ Count(trace, "pypdf2") <= 1 /\ Count(trace, "parse") <= 1)
    /\ [][result.error # "<pending>" => result' = result /\ trace' = trace /\ pc' = pc]_vars

\* both providers were tried once, both failed, and the call ended
C10_Witness ==
    /\ pc = "done"
    /\ result.error = "pdf_extraction_failed"
    /\ trace = << "fitz", "pypdf2" >>
    /\ fitz_out.st = "threw"
    /\ pdf2_out.st = "threw"

(***************************************************************************)
(* parse_invoice_data called directly, step by step.  Every call has a     *)
(* frame of its own for its locals; an exception raised by a statement is  *)
(* a choice of the environment.                                            *)
(***************************************************************************)
\* calls of parse_invoice_data that can be open at the same time
MaxCalls == 3

\* the texts parse_invoice_data is called with
ParseTexts ==
    { "",
      " ",
      "hello",
      "ACME LTD\nTotal: 500",
      "ACME\nTel: 12345678\nInvoice\nTotal: 5",
      "Invoice\nTotal: 500",
      "Invoice\nBill To: ACME\n",
      "Code Qty Value\nOIL FILTER 2 45,000" }

\* the texts of the calls that run side by side
CallTexts == { "AB\nVAT 5", "PI\nVAT 5" }

\* lines 132-150: the keys of the dict returned for a text that is empty or blank
EmptyTextKeys ==
    { "invoice_no", "code_no", "date", "customer_name", "address", "phone", "email",
      "reference", "subtotal", "tax", "total", "items", "payment_method", "delivery_terms",
      "remarks", "attended_by", "kind_attention" }

\* lines 1046-1072: the keys of the dict returned at the end of the function
ReturnKeys ==
    { "invoice_no", "code_no", "date", "customer_name", "phone", "email", "address",
      "reference", "subtotal", "tax", "tax_rate", "total", "items", "payment_method",
      "delivery_terms", "remarks", "attended_by", "kind_attention", "seller_name",
      "seller_address", "seller_phone", "seller_email", "seller_tax_id", "seller_vat_reg" }

\* lines 164-169: the seller locals before the detection
NoSeller ==
    [seller_name |-> None, seller_address |-> None, seller_phone |-> None,
     seller_email |-> None, seller_tax_id |-> None, seller_vat_reg |-> None]

NoHeader ==
    [customer_name |-> None, address |-> None, subtotal |-> NullDec, tax |-> NullDec,
     total |-> NullDec]

NoFault == [stage |-> "none", at |-> "", caught |-> FALSE]

\* the locals of a call that has not started
NoLocals ==
    [normalized_text |-> "", seller |-> NoSeller, header |-> NoHeader, items |-> << >>]

NoReturn == [keys |-> {}, record |-> NullParse]

NoCall ==
    [pc |-> "idle", text |-> "", locals |-> NoLocals, fault |-> NoFault, out |-> NoReturn]

\* a frame shared by all the calls
frame_of_shared(c) == 1

\* the frame that holds the locals of the call c
frame_of(c) == c

\* the locals the call c reads
locals_of(c) == calls[frame_of(c)].locals

\* the call c goes to the position next, with its locals as given
Stepped(c, next, locals) ==
    LET moved == [calls EXCEPT ![c].pc = next]
    IN [moved EXCEPT ![frame_of(c)].locals = locals]

\* the statements of the try block of the seller detection, in the order they run:
\* lines 173-186, 187-190, 191-194, 195-197, 198-200, 201-203, 207 and 209
SellerStatements ==
    << "seller_name", "seller_address", "seller_phone", "seller_email", "seller_tax_id",
       "seller_vat_reg", "replace", "split" >>

\* lines 171-214: what the seller detection leaves when its statement k raises:
\* the locals assigned before k keep their values (the handler at line 214 only
\* does seller_name = seller_name or None), the text is replaced once the
\* statement at line 207 has run
seller_block_raising(done, normalized_text, k) ==
    [seller_name |-> IF k > 1 THEN done.seller_name ELSE None,
     seller_address |-> IF k > 2 THEN done.seller_address ELSE None,
     seller_phone |-> IF k > 3 THEN done.seller_phone ELSE None,
     seller_email |-> IF k > 4 THEN done.seller_email ELSE None,
     seller_tax_id |-> IF k > 5 THEN done.seller_tax_id ELSE None,
     seller_vat_reg |-> IF k > 6 THEN done.seller_vat_reg ELSE None,
     normalized_text |-> IF k > 7 THEN done.normalized_text ELSE normalized_text]

\* the six seller locals of the record seller_block gives
seller_fields(s) ==
    [seller_name |-> s.seller_name, seller_address |-> s.seller_address,
     seller_phone |-> s.seller_phone, seller_email |-> s.seller_email,
     seller_tax_id |-> s.seller_tax_id, seller_vat_reg |-> s.seller_vat_reg]

\* lines 355-542 and 716-756: the header fields read from the text left
header_fields(normalized_text, ca) ==
    [customer_name |-> ca.customer_name,
     address |-> ca.address,
     subtotal |-> to_decimal(find_amount(SubtotalLabels, normalized_text)),
     tax |-> to_decimal(find_amount(TaxLabels, normalized_text)),
     total |-> to_decimal(find_amount(TotalLabels, normalized_text))]

\* the extractors of lines 277-844, in the order they run
HeaderExtractors ==
    << "code_no", "customer_name", "address", "phone", "email", "reference", "invoice_no",
       "date", "subtotal", "tax", "tax_rate", "total", "payment_method", "delivery_terms",
       "remarks", "attended_by", "kind_attention" >>

\* the extractors with statements inside a try: the phone fallback (lines
\* 572-584), to_decimal (lines 666-673) and the tax rate (lines 738-748)
TryProtected == { "phone", "subtotal", "tax", "tax_rate", "total" }

\* the header once the handler of the extractor e has run: its local is None
header_without(header, e) ==
    [f \in DOMAIN header |-> IF f = e THEN NoHeader[f] ELSE header[f]]

\* lines 1046-1072: the dict returned
return_record(locals) ==
    [customer_name |-> locals.header.customer_name,
     address |-> locals.header.address,
     subtotal |-> locals.header.subtotal,
     tax |-> locals.header.tax,
     total |-> locals.header.total,
     items |-> locals.items,
     seller_name |-> locals.seller.seller_name]

\* lines 131-160: the call starts; a text that is empty or blank returns at once
Enter(c, texts) ==
    /\ calls[c].pc \in { "idle", "returned", "raised" }
    /\ \E t \in texts :
         LET entered == [calls EXCEPT ![c] = [NoCall EXCEPT !.text = t]]
         IN IF t = "" \/ strip(t) = ""
            THEN calls' = [entered EXCEPT ![c].pc = "returned",
                                          ![c].out = [keys |-> EmptyTextKeys,
                                                      record |-> NullParse]]
            ELSE calls' = [[entered EXCEPT ![c].pc = "seller"]
                              EXCEPT ![frame_of(c)].locals =
                                         [NoLocals EXCEPT !.normalized_text = strip(t)]]
    /\ UNCHANGED << extract_vars, row, amount, db, requests, later_vars >>

\* the locals after the seller detection has come to s
AfterSeller(locals, s) ==
    [locals EXCEPT !.seller = seller_fields(s), !.normalized_text = s.normalized_text]

\* lines 163-214: the seller block is detected and stripped from the text
DetectSeller(c) ==
    /\ calls[c].pc = "seller"
    /\ calls' = Stepped(c, "header",
                        AfterSeller(locals_of(c), seller_block(locals_of(c).normalized_text)))
    /\ UNCHANGED << extract_vars, row, amount, db, requests, later_vars >>

\* lines 171-214: a statement of the seller detection raises
SellerFault(c) ==
    /\ calls[c].pc = "seller"
    /\ \E k \in 1..Len(SellerStatements) :
         /\ k > 1 => seller_lines(locals_of(c).normalized_text) # << >>
         /\ calls' = [Stepped(c, "header",
                              AfterSeller(locals_of(c),
                                          seller_block_raising(
                                              seller_block(locals_of(c).normalized_text),
                                              locals_of(c).normalized_text, k)))
                         EXCEPT ![c].fault = [stage |-> "seller", at |-> SellerStatements[k],
                                              caught |-> TRUE]]
    /\ UNCHANGED << extract_vars, row, amount, db, requests, later_vars >>

\* the locals with the header as given
WithHeader(locals, header) == [locals EXCEPT !.header = header]

\* lines 277-844: the header extractors
ExtractHeader(c) ==
    /\ calls[c].pc = "header"
    /\ calls' = Stepped(c, "items",
                        WithHeader(locals_of(c),
                                   header_fields(locals_of(c).normalized_text,
                                                 customer_and_address(locals_of(c).normalized_text))))
    /\ UNCHANGED << extract_vars, row, amount, db, requests, later_vars >>

\* lines 277-844: a statement of the extractor e raises, inside a try of the
\* extractor or outside of one; outside, the exception leaves parse_invoice_data
HeaderFault(c) ==
    /\ calls[c].pc = "header"
    /\ \E k \in 1..Len(HeaderExtractors), in_try \in BOOLEAN :
         /\ in_try => HeaderExtractors[k] \in TryProtected
         /\ calls' =
              [(IF in_try
                THEN Stepped(c, "items",
                             WithHeader(locals_of(c),
                                        header_without(
                                            header_fields(locals_of(c).normalized_text,
                                                          customer_and_address(locals_of(c).normalized_text)),
                                            HeaderExtractors[k])))
                ELSE Stepped(c, "raised", locals_of(c)))
                  EXCEPT ![c].fault = [stage |-> "header", at |-> HeaderExtractors[k],
                                       caught |-> in_try]]
    /\ UNCHANGED << extract_vars, row, amount, db, requests, later_vars >>

\* the locals with the items as given
WithItems(locals, items) == [locals EXCEPT !.items = items]

\* lines 846-1044: the item table is read
ExtractItems(c) ==
    /\ calls[c].pc = "items"
    /\ calls' = Stepped(c, "return",
                        WithItems(locals_of(c), items_of(locals_of(c).normalized_text)))
    /\ UNCHANGED << extract_vars, row, amount, db, requests, later_vars >>

\* lines 1046-1072: the dict is returned
Return(c) ==
    /\ calls[c].pc = "return"
    /\ calls' = [calls EXCEPT ![c].pc = "returned",
                              ![c].out = [keys |-> ReturnKeys,
                                          record |-> return_record(locals_of(c))]]
    /\ UNCHANGED << extract_vars, row, amount, db, requests, later_vars >>

\* extract_from_bytes and the other entry points are not called
ParseIdle ==
    /\ fitz = FALSE
    /\ PyPDF2 = FALSE
    /\ pc = "idle"
    /\ file_bytes = ""
    /\ filename = ""
    /\ text = ""
    /\ fitz_error = None
    /\ pdf2_error = None
    /\ raised = << >>
    /\ parsed = NullParse
    /\ result = NoResult
    /\ trace = << >>
    /\ fitz_out = NotRun
    /\ pdf2_out = NotRun

ParseInit ==
    /\ ParseIdle
    /\ LaterIdle
    /\ calls = [c \in { 1 } |-> NoCall]
    /\ row = << >>
    /\ amount = << >>
    /\ db = << >>
    /\ requests = << >>

ParseNext ==
    \/ \E c \in DOMAIN calls : Enter(c, ParseTexts)
    \/ \E c \in DOMAIN calls : DetectSeller(c)
    \/ \E c \in DOMAIN calls : SellerFault(c)
    \/ \E c \in DOMAIN calls : ExtractHeader(c)
    \/ \E c \in DOMAIN calls : HeaderFault(c)
    \/ \E c \in DOMAIN calls : ExtractItems(c)
    \/ \E c \in DOMAIN calls : Return(c)

\* one call of parse_invoice_data after the other, with exceptions
ParseSpec == ParseInit /\ [][ParseNext]_vars

CallsInit ==
    /\ ParseIdle
    /\ LaterIdle
    /\ calls = [c \in 1..MaxCalls |-> NoCall]
    /\ row = << >>
    /\ amount = << >>
    /\ db = << >>
    /\ requests = << >>

CallsNext ==
    \/ \E c \in DOMAIN calls : Enter(c, CallTexts)
    \/ \E c \in DOMAIN calls : DetectSeller(c)
    \/ \E c \in DOMAIN calls : ExtractHeader(c)
    \/ \E c \in DOMAIN calls : ExtractItems(c)
    \/ \E c \in DOMAIN calls : Return(c)

\* calls of parse_invoice_data that run side by side
CallsSpec == CallsInit /\ [][CallsNext]_vars

(***************************************************************************)
(* Properties of parse_invoice_data.                                       *)
(***************************************************************************)
\* the keys of InvoiceHeader
InvoiceHeaderKeys ==
    { "invoice_no", "code_no", "date", "customer_name", "address", "phone", "email",
      "reference", "subtotal", "tax", "tax_rate", "total", "payment_method",
      "delivery_terms", "remarks", "attended_by", "kind_attention" }

\* the parsing by steps gives the record the function gives
StepsAgree ==
    \A c \in DOMAIN calls :
        calls[c].pc = "returned" /\ calls[c].fault = NoFault
            => calls[c].out.record = parse_invoice_data(calls[c].text)

\* C11: for every input text, empty and all-whitespace text included, the
\* record returned by parse has every key of InvoiceHeader; on empty text the
\* values are all null and items is empty.
C11_EveryHeaderKeyPresent ==
    \A c \in DOMAIN calls :
        calls[c].pc = "returned" =>
            /\ InvoiceHeaderKeys \subseteq calls[c].out.keys
            /\ "items" \in calls[c].out.keys
            /\ calls[c].text = "" => calls[c].out.record = NullParse

\* the call c stands after the seller detection and before its return
SellerDone(c) == calls[c].pc \in { "header", "items", "return" }

\* the text is what is left of whole when one occurrence of block is taken out
OneRemoved(whole, block, left) ==
    \E i \in 1..(Len(whole) + 1) :
        /\ i + Len(block) - 1 <= Len(whole)
        /\ SubSeq(whole, i, i + Len(block) - 1) = block
        /\ left = SubSeq(whole, 1, i - 1) \o SubSeq(whole, i + Len(block), Len(whole))

\* C12: for every non-empty input text, the stripping of the seller block
\* takes at most one contiguous occurrence of the detected block out of the
\* working text and never leaves the working text empty, also for a document
\* of one or two lines without an invoice or customer marker.
C12_StripNeverEmpties ==
    \A c \in DOMAIN calls :
        SellerDone(c) =>
            /\ locals_of(c).normalized_text # ""
            /\ \/ locals_of(c).normalized_text = strip(calls[c].text)
               \/ OneRemoved(strip(calls[c].text),
                             join("\n", seller_lines(calls[c].text)),
                             locals_of(c).normalized_text)

\* C13: an exception raised at any point of the seller detection is swallowed:
\* the six seller fields are null in the result, the working text is the
\* original trimmed text, and the extractors that follow still run.
C13_SellerExceptionSwallowed ==
    \A c \in DOMAIN calls :
        calls[c].fault.stage = "seller" =>
            /\ calls[c].pc # "raised"
            /\ SellerDone(c) =>
                 /\ locals_of(c).seller = NoSeller
                 /\ locals_of(c).normalized_text = strip(calls[c].text)
            /\ calls[c].pc = "returned" => calls[c].out.record.seller_name = None

\* the record a call returns when the extractor e alone has left its field null
record_without(locals, e) ==
    return_record([locals EXCEPT
        !.header = header_without(header_fields(locals.normalized_text,
                                                customer_and_address(locals.normalized_text)), e),
        !.items = items_of(locals.normalized_text)])

\* C14: an exception raised inside one header field extractor leaves that
\* field null and does not keep the other fields and the line items from
\* being extracted and returned.
C14_ExtractorExceptionIsolated ==
    \A c \in DOMAIN calls :
        calls[c].fault.stage = "header" =>
            /\ calls[c].pc # "raised"
            /\ calls[c].pc = "returned" =>
                 calls[c].out.record = record_without(locals_of(c), calls[c].fault.at)

MaxNumbers == 3

\* the floats the numbers of a row are drawn from: 0, 2, 3, 100, 1000, 45000,
\* 150000, 0.5 and 0.00003
RowFloats ==
    { FloatOfInt(0), FloatOfInt(2), FloatOfInt(3), FloatOfInt(100), FloatOfInt(1000),
      FloatOfInt(45000), FloatOfInt(150000), [coef |-> 5, frac |-> 1],
      [coef |-> 3, frac |-> 5] }

\* the descriptions read from a row
RowDescriptions == { "", "W", "OIL FILTER" }

\* lines 988-995: the item before the numbers are looked at
NoRoles == [qty |-> 1, value |-> NullDec, rate |-> NoRatio]

NoRow ==
    [pc |-> "start", full_description |-> "", numbers_for_parsing |-> << >>,
     item |-> item_of("", NoRoles, None, None), items |-> << >>]

\* lines 913-981: a row has given its description and its numbers
ReadRow ==
    /\ row.pc = "start"
    /\ \E d \in RowDescriptions, n \in SeqsUpTo(RowFloats, MaxNumbers) :
         row' = [NoRow EXCEPT !.pc = "described", !.full_description = d,
                              !.numbers_for_parsing = n,
                              !.item = item_of(d, NoRoles, None, None)]
    /\ UNCHANGED << extract_vars, calls, amount, db, requests, later_vars >>

\* lines 983-1037: the row is skipped without a description or without
\* numbers; otherwise quantity, value and rate are assigned
AssignRoles ==
    /\ row.pc = "described"
    /\ IF \/ row.full_description = ""
          \/ Len(row.full_description) < 2
          \/ row.numbers_for_parsing = << >>
       THEN row' = [row EXCEPT !.pc = "skipped"]
       ELSE row' = [row EXCEPT !.pc = "assigned",
                               !.item = item_of(row.full_description,
                                                numeric_roles(row.numbers_for_parsing),
                                                None, None)]
    /\ UNCHANGED << extract_vars, calls, amount, db, requests, later_vars >>

\* lines 1039-1041: the item is appended or dropped
AppendRow ==
    /\ row.pc = "assigned"
    /\ row' = [row EXCEPT !.pc = "done", !.items = appended(row.item)]
    /\ UNCHANGED << extract_vars, calls, amount, db, requests, later_vars >>

RowInit ==
    /\ ParseIdle
    /\ LaterIdle
    /\ calls = << >>
    /\ row = NoRow
    /\ amount = << >>
    /\ db = << >>
    /\ requests = << >>

RowNext ==
    \/ ReadRow
    \/ AssignRoles
    \/ AppendRow

\* the parsing of one item row
RowSpec == RowInit /\ [][RowNext]_vars

\* the roles have been assigned to the numbers of the row
RolesAssigned == row.pc \in { "assigned", "done" }

\* the row has been appended or dropped
RowSettled == row.pc \in { "skipped", "done" }

\* the steps give what the parsing of the row gives
RowStepsAgree ==
    RowSettled => row.items = row_of_description(row.full_description,
                                                 row.numbers_for_parsing, None, None)

\* the decimal d is the number x
IsNumber(d, x) == ~d.null /\ ~d.neg /\ FloatOfDecimal(d) = x

\* the rate is the number x divided by the quantity q
IsQuotient(rate, x, q) ==
    /\ ~rate.null
    /\ rate.num * q * Pow10(x.frac) = x.coef * rate.den

\* a whole number under 100
SmallWhole(x) == IsWhole(x) /\ x.coef < 100

\* the item has the quantity q and the value x, and the rate x / q when q > 0
HasRoles(item, q, x) ==
    /\ item.qty = q
    /\ IsNumber(item.value, x)
    /\ q > 0 => IsQuotient(item.rate, x, q)

\* C15: for a row with exactly two remaining numbers of which one is a whole
\* number under 100, that number is the quantity, the other is the value, and
\* the rate is value / quantity whenever the quantity is above 0; the numbers
\* 2 and 45000 give quantity 2, value 45000 and rate 22500.
C15_TwoNumbers ==
    RolesAssigned /\ Len(row.numbers_for_parsing) = 2 =>
        LET n == row.numbers_for_parsing IN
        /\ SmallWhole(n[1]) => HasRoles(row.item, n[1].coef, n[2])
        /\ ~SmallWhole(n[1]) /\ SmallWhole(n[2]) => HasRoles(row.item, n[2].coef, n[1])
        /\ n = << FloatOfInt(2), FloatOfInt(45000) >> =>
             row.item.rate = Ratio(FloatOfInt(22500), 1)

\* the whole numbers n of the row, 0 < n < 1000, other than the maximum
Quantities(n) ==
    { n[k].coef : k \in { j \in 1..Len(n) : /\ IsWhole(n[j])
                                            /\ 0 < n[j].coef
                                            /\ n[j].coef < 1000
                                            /\ n[j] # MaxOf(n) } }

Least(S) == CHOOSE x \in S : \A y \in S : x <= y

\* C16: for a row with three or more remaining numbers the value is the
\* maximum, the quantity is the smallest whole number n, 0 < n < 1000, other
\* than the maximum (1 if there is none), and the rate is value / quantity
\* when there is such a number; 21004, 3 and 150000 give value 150000,
\* quantity 3 and rate 50000.
C16_ManyNumbers ==
    RolesAssigned /\ Len(row.numbers_for_parsing) >= 3 =>
        LET n == row.numbers_for_parsing IN
        /\ IsNumber(row.item.value, MaxOf(n))
        /\ row.item.qty = IF Quantities(n) = {} THEN 1 ELSE Least(Quantities(n))
        /\ Quantities(n) # {} => IsQuotient(row.item.rate, MaxOf(n), row.item.qty)

\* C17: a candidate row is appended to items if and only if its description
\* is non-empty and its value is non-null or its quantity is above 1; a row
\* whose value is the number 0 has a non-null value and is kept.
C17_KeptIffDescribedAndValued ==
    RowSettled =>
        (row.items # << >> <=>
            /\ row.full_description # ""
            /\ ~row.item.value.null \/ row.item.qty > 1)

(***************************************************************************)
(* to_decimal called on its own.                                           *)
(***************************************************************************)
\* the longest string made up from the alphabet
MaxAmountLen == 3

AmountAlphabet == { "1", "0", ",", ".", "-", "T", " " }

RECURSIVE StringsUpTo(_, _)
StringsUpTo(S, n) ==
    IF n = 0 THEN { "" }
    ELSE LET shorter == StringsUpTo(S, n - 1) IN
         shorter \cup { str \o ch : str \in { r \in shorter : Len(r) = n - 1 }, ch \in S }

\* the strings to_decimal is called with
AmountStrings ==
    StringsUpTo(AmountAlphabet, MaxAmountLen) \cup { "1,234,567.89", "TSH 45,000" }

NoAmount == [pc |-> "start", s |-> "", cleaned |-> "", out |-> NullDec]

\* a handler that catches ValueError and TypeError only
HandledIfValueError(exception) == exception \in { "ValueError", "TypeError" }

\* lines 672-673: except Exception catches every exception raised in the try
Handled(exception) == TRUE

\* lines 666-669: the string is cleaned; None for an empty string
CleanAmount ==
    /\ amount.pc = "start"
    /\ \E str \in AmountStrings :
         IF Truthy(str)
         THEN amount' = [NoAmount EXCEPT !.pc = "cleaned", !.s = str,
                                         !.cleaned = strip(sub(NotAmountChar, "", str, Re0))]
         ELSE amount' = [NoAmount EXCEPT !.pc = "returned", !.s = str]
    /\ UNCHANGED << extract_vars, calls, row, db, requests, later_vars >>

\* lines 670-674: the cleaned string is converted; Decimal raises
\* InvalidOperation for a string that is no number
ConvertAmount ==
    /\ amount.pc = "cleaned"
    /\ IF amount.cleaned # "" /\ amount.cleaned \notin { ".", ",", "-" }
          /\ DecimalOf(sub(Lit(","), "", amount.cleaned, Re0)).null
          /\ ~Handled("InvalidOperation")
       THEN amount' = [amount EXCEPT !.pc = "raised"]
       ELSE amount' = [amount EXCEPT !.pc = "returned",
                                     !.out = decimal_of_cleaned(amount.cleaned)]
    /\ UNCHANGED << extract_vars, calls, row, db, requests, later_vars >>

\* the next call
NextAmount ==
    /\ amount.pc \in { "returned", "raised" }
    /\ amount' = NoAmount
    /\ UNCHANGED << extract_vars, calls, row, db, requests, later_vars >>

DecimalInit ==
    /\ ParseIdle
    /\ LaterIdle
    /\ calls = << >>
    /\ row = << >>
    /\ amount = NoAmount
    /\ db = << >>
    /\ requests = << >>

DecimalNext ==
    \/ CleanAmount
    \/ ConvertAmount
    \/ NextAmount

\* calls of to_decimal
DecimalSpec == DecimalInit /\ [][DecimalNext]_vars

\* the steps give what the function gives
AmountStepsAgree == amount.pc = "returned" => amount.out = to_decimal(amount.s)

RECURSIVE Keeping(_, _)
\* the characters of str that are in chars, in their order
Keeping(str, chars) ==
    IF str = "" THEN ""
    ELSE (IF Ch(str, 1) \in chars THEN Ch(str, 1) ELSE "") \o
         Keeping(SubSeq(str, 2, Len(str)), chars)

\* what is left of the string: digits, dots, commas and minus signs
Residue(str) == Keeping(str, DigitChars \cup { ".", ",", "-" })

\* str is an optional minus sign and then digits around at most one dot, with
\* a digit at least
WritesNumber(str) ==
    LET body == IF str # "" /\ Ch(str, 1) = "-" THEN SubSeq(str, 2, Len(str)) ELSE str
    IN /\ Keeping(body, DigitChars \cup { "." }) = body
       /\ Len(Keeping(body, { "." })) <= 1
       /\ Keeping(body, DigitChars) # ""

\* the number str writes
NumberWritten(str) ==
    LET digits == Keeping(str, DigitChars)
        dot == FindFrom(str, ".", 1)
    IN Dec(Ch(str, 1) = "-", DigitsValue(digits, Len(digits)),
           IF dot = 0 THEN 0 ELSE Len(str) - dot)

\* C19: the amount normalizer never raises: for every input string it returns
\* the decimal obtained by dropping all characters other than digits, dot,
\* comma and minus and then removing the commas, or None when the residue is
\* empty, punctuation only or no valid decimal; "1,234,567.89" gives
\* 1234567.89, "TSH 45,000" gives 45000, "-" and "" give None.
C19_AmountNormalizer ==
    /\ amount.pc # "raised"
    /\ amount.pc = "returned" =>
         LET written == Keeping(Residue(amount.s), DigitChars \cup { ".", "-" })
         IN /\ amount.out = IF WritesNumber(written) THEN NumberWritten(written)
                            ELSE NullDec
            /\ amount.s = "1,234,567.89" => amount.out = Dec(FALSE, 123456789, 2)
            /\ amount.s = "TSH 45,000" => amount.out = Dec(FALSE, 45000, 0)
            /\ amount.s \in { "-", "" } => amount.out = NullDec

\* to_decimal has returned None for a string whose residue is no number and
\* for which Decimal raises
C19_Witness ==
    /\ amount.pc = "returned"
    /\ amount.s = "1-1"
    /\ amount.out = NullDec

(***************************************************************************)
(* api_start_order: requests of one branch that run side by side.  The     *)
(* tables are those of the models Vehicle and Order; a statement of a      *)
(* request is one step, and what it writes is seen by the others at once.  *)
(***************************************************************************)
\* the requests that can be under way at the same time
MaxRequests == 2

\* data['plate_number'] as it is posted
PostedPlates == { "", "t 100", "T 100 ", "T 200" }

\* data['order_type'] as it is posted
PostedTypes == { "service", "rental" }

\* data['existing_customer_id'] as it is posted: 0 when there is none, 1 the
\* id of a customer of the branch, 9 the id of no customer
PostedCustomers == { 0, 1, 9 }

\* the customers of the branch before the requests
BranchCustomers == { 1 }

NoOrder == 0

NoRequest ==
    [pc |-> "idle", plate_number |-> "", order_type |-> "", use_existing |-> FALSE,
     existing_customer_id |-> 0, vehicle |-> "", existing_order |-> NoOrder,
     order |-> NoOrder, status |-> 0, answer |-> ""]

\* the tables the requests can find at their start: a vehicle is known by its
\* plate, an order by its place in the table
StartTables ==
    { [vehicles |-> {}, orders |-> << >>],
      [vehicles |-> { "T 100" }, orders |-> << >>],
      [vehicles |-> { "T 100" }, orders |-> << [vehicle |-> "T 100", status |-> "created"] >>],
      [vehicles |-> { "T 100" }, orders |-> << [vehicle |-> "T 100", status |-> "completed"] >>] }

\* the orders of the vehicle with status 'created'
created_orders(orders, vehicle) ==
    { k \in 1..Len(orders) : orders[k].vehicle = vehicle /\ orders[k].status = "created" }

\* Order.objects.filter(vehicle=vehicle, status='created').first(): one of
\* the orders found, no order when none is found
first_created(orders, vehicle) ==
    IF created_orders(orders, vehicle) = {} THEN { NoOrder }
    ELSE created_orders(orders, vehicle)

\* VehicleService.create_or_get_vehicle(customer, plate_number): the vehicle
\* of the plate is in the table afterwards, once
create_or_get_vehicle(vehicles, plate_number) ==
    vehicles \cup { plate_number }

\* Order.objects.create(vehicle=vehicle, status='created', ...): a row is
\* added to the table of orders; the table accepts the row whatever rows it
\* holds for the vehicle
create(orders, vehicle) ==
    Append(orders, [vehicle |-> vehicle, status |-> "created"])

\* the request ends with an answer
Answered(req, status, answer) ==
    [req EXCEPT !.pc = "done", !.status = status, !.answer = answer]

\* lines 44-56: the posted data is read and checked
ReceiveRequest(r) ==
    /\ requests[r].pc = "idle"
    /\ \E plate \in PostedPlates, type \in PostedTypes, use \in BOOLEAN,
          id \in PostedCustomers :
         LET req == [NoRequest EXCEPT !.plate_number = upper(strip(plate)),
                                      !.order_type = type, !.use_existing = use,
                                      !.existing_customer_id = id]
         IN requests' = [requests EXCEPT ![r] =
                IF req.plate_number = ""
                THEN Answered(NoRequest, 400, "Vehicle plate number is required")
                ELSE IF type \notin { "service", "sales", "inquiry" }
                THEN Answered(NoRequest, 400, "Invalid order type")
                ELSE [req EXCEPT !.pc = "find_vehicle"]]
    /\ UNCHANGED << extract_vars, calls, row, amount, db, later_vars >>

\* lines 62-97: the vehicle of the plate and its started order are looked up;
\* without a choice of customer the request ends here when the vehicle exists
FindVehicle(r) ==
    /\ requests[r].pc = "find_vehicle"
    /\ LET req == requests[r]
           ask == ~req.use_existing /\ req.existing_customer_id = 0
       IN IF req.plate_number \in db.vehicles
          THEN \E existing_order \in first_created(db.orders, req.plate_number) :
                 requests' = [requests EXCEPT ![r] =
                    IF existing_order # NoOrder /\ ask
                    THEN Answered([req EXCEPT !.existing_order = existing_order,
                                              !.order = existing_order],
                                  200, "Existing order found for this plate")
                    ELSE IF ask
                    THEN Answered(req, 200, "existing_customer")
                    ELSE [req EXCEPT !.pc = "choose_customer"]]
          ELSE requests' = [requests EXCEPT ![r].pc = "choose_customer"]
    /\ UNCHANGED << extract_vars, calls, row, amount, db, later_vars >>

\* lines 101-134: inside the transaction the customer is chosen and the
\* vehicle of the plate is fetched or created; get_object_or_404 raises for
\* an id that is no customer of the branch, which ends the request at line 179
ChooseCustomer(r) ==
    /\ requests[r].pc = "choose_customer"
    /\ LET req == requests[r] IN
       IF /\ req.use_existing
          /\ req.existing_customer_id # 0
          /\ req.existing_customer_id \notin BranchCustomers
       THEN /\ requests' = [requests EXCEPT ![r] = Answered(req, 500, "Server error")]
            /\ db' = db
       ELSE /\ requests' = [requests EXCEPT ![r].pc = "find_order",
                                            ![r].vehicle = req.plate_number]
            /\ db' = [db EXCEPT !.vehicles =
                                create_or_get_vehicle(db.vehicles, req.plate_number)]
    /\ UNCHANGED << extract_vars, calls, row, amount, later_vars >>

\* lines 154-157: the started order of the vehicle is looked up
FindOrder(r) ==
    /\ requests[r].pc = "find_order"
    /\ \E existing_order \in first_created(db.orders, requests[r].vehicle) :
         requests' = [requests EXCEPT ![r].pc = "store_order",
                                      ![r].existing_order = existing_order]
    /\ UNCHANGED << extract_vars, calls, row, amount, db, later_vars >>

\* lines 159-175: the order found is taken, or a new order is created; the
\* answer carries the order
StoreOrder(r) ==
    /\ requests[r].pc = "store_order"
    /\ LET req == requests[r] IN
       IF req.existing_order # NoOrder
       THEN /\ requests' = [requests EXCEPT ![r] =
                               Answered([req EXCEPT !.order = req.existing_order], 201, "")]
            /\ db' = db
       ELSE /\ requests' = [requests EXCEPT ![r] =
                               Answered([req EXCEPT !.order = Len(db.orders) + 1], 201, "")]
            /\ db' = [db EXCEPT !.orders = create(db.orders, req.vehicle)]
    /\ UNCHANGED << extract_vars, calls, row, amount, later_vars >>

OrderInit ==
    /\ ParseIdle
    /\ LaterIdle
    /\ calls = << >>
    /\ row = << >>
    /\ amount = << >>
    /\ db \in StartTables
    /\ requests = [r \in 1..MaxRequests |-> NoRequest]

OrderNext ==
    \/ \E r \in DOMAIN requests : ReceiveRequest(r)
    \/ \E r \in DOMAIN requests : FindVehicle(r)
    \/ \E r \in DOMAIN requests : ChooseCustomer(r)
    \/ \E r \in DOMAIN requests : FindOrder(r)
    \/ \E r \in DOMAIN requests : StoreOrder(r)

\* requests to api_start_order that run side by side
OrderSpec == OrderInit /\ [][OrderNext]_vars

\* C20: under any interleaving of api_start_order requests for the same plate
\* number in the same branch, two requests that run at the same time
\* included, at most one order with status 'created' is created for that
\* vehicle; a request that finds such an order returns it and creates no
\* duplicate.
C20_OneCreatedOrderPerVehicle ==
    /\ \A vehicle \in db.vehicles :
         Cardinality(created_orders(db.orders, vehicle)) <= 1
    /\ \A r \in DOMAIN requests :
         requests[r].pc = "done" /\ requests[r].existing_order # NoOrder
             => requests[r].order = requests[r].existing_order

(***************************************************************************)
(* time_utils: the working hours between two datetimes and the overdue     *)
(* test.  A datetime is a day, a second of the day and a microsecond, as   *)
(* datetime keeps them; all datetimes are taken in the current time zone.  *)
(* The hours are Python floats: binary numbers of 53 significant bits,     *)
(* rounded to nearest, ties to even, after every operation.                *)
(***************************************************************************)
WORK_START_HOUR == 8

WORK_END_HOUR == 17

OVERDUE_THRESHOLD_HOURS == 9

\* the bits a float keeps
MantissaBits == 53

\* the bits of a natural number, the most significant first; none for 0
RECURSIVE Bits(_)
Bits(n) == IF n = 0 THEN << >> ELSE Append(Bits(n \div 2), n % 2)

\* the last w bits of a natural number
RECURSIVE LowBits(_, _)
LowBits(n, w) == IF w = 0 THEN << >> ELSE Append(LowBits(n \div 2, w - 1), n % 2)

\* n zeros
ZeroBits(n) == [k \in 1..n |-> 0]

\* the bits without the zeros in front
Significant(bits) ==
    IF \A k \in 1..Len(bits) : bits[k] = 0 THEN << >>
    ELSE SubSeq(bits, CHOOSE k \in 1..Len(bits) :
                          bits[k] = 1 /\ \A j \in 1..(k - 1) : bits[j] = 0,
                Len(bits))

\* the number written by bits[lo..hi], for 30 bits at most
RECURSIVE BitsValue(_, _, _)
BitsValue(bits, lo, hi) ==
    IF hi < lo THEN 0 ELSE 2 * BitsValue(bits, lo, hi - 1) + bits[hi]

\* the last bit of the step of a division that starts at bit k: 15 bits are
\* taken in a step
StepEnd(bits, k) == Min(Len(bits), k + 14)

\* the bits of the whole quotient of the number by d, from bit k on, with r
\* the remainder of the bits before k; d is below 2^15
RECURSIVE QuotientFrom(_, _, _, _)
QuotientFrom(bits, d, k, r) ==
    IF k > Len(bits) THEN << >>
    ELSE LowBits((r * 2^(StepEnd(bits, k) - k + 1)
                     + BitsValue(bits, k, StepEnd(bits, k))) \div d,
                 StepEnd(bits, k) - k + 1)
         \o QuotientFrom(bits, d, StepEnd(bits, k) + 1,
                         (r * 2^(StepEnd(bits, k) - k + 1)
                             + BitsValue(bits, k, StepEnd(bits, k))) % d)

\* the remainder of the number by d
RECURSIVE RemainderFrom(_, _, _, _)
RemainderFrom(bits, d, k, r) ==
    IF k > Len(bits) THEN r
    ELSE RemainderFrom(bits, d, StepEnd(bits, k) + 1,
                       (r * 2^(StepEnd(bits, k) - k + 1)
                           + BitsValue(bits, k, StepEnd(bits, k))) % d)

\* the first bit of the step of a sum that ends at bit k: 24 bits are taken
\* in a step
StepStart(k) == IF k - 23 < 1 THEN 1 ELSE k - 23

\* the sum of two numbers of the same count of bits, from bit k back, c carried
RECURSIVE SumFrom(_, _, _, _)
SumFrom(a, b, k, c) ==
    IF k = 0 THEN (IF c = 1 THEN << 1 >> ELSE << >>)
    ELSE SumFrom(a, b, StepStart(k) - 1,
                 (BitsValue(a, StepStart(k), k)
                     + BitsValue(b, StepStart(k), k) + c)
                 \div 2^(k - StepStart(k) + 1))
         \o LowBits((BitsValue(a, StepStart(k), k)
                        + BitsValue(b, StepStart(k), k) + c)
                    % 2^(k - StepStart(k) + 1),
                    k - StepStart(k) + 1)

\* the number plus one
PlusOne(bits) == SumFrom(bits, ZeroBits(Len(bits) - 1) \o << 1 >>, Len(bits), 0)

\* a bit of bits[from..] is set
AnySet(bits, from) == \E k \in from..Len(bits) : bits[k] = 1

\* a < b for numbers of the same count of bits
BitsLess(a, b) ==
    \E k \in 1..Len(a) : a[k] < b[k] /\ \A j \in 1..(k - 1) : a[j] = b[j]

\* the float 0.0
DoubleZero == [bits |-> << >>, exp |-> 0]

\* the float with the mantissa kept and the exponent of its last bit; a
\* mantissa of one bit more, after rounding up from all ones, loses its last
Normalized(mantissa, exp) ==
    IF Len(mantissa) > MantissaBits
    THEN [bits |-> SubSeq(mantissa, 1, MantissaBits), exp |-> exp + 1]
    ELSE [bits |-> mantissa, exp |-> exp]

\* the float nearest to bits * 2^exp, where inexact says that the number is a
\* little more than its bits say; bits starts with 1 and has 55 bits or more
RoundHalfEven(bits, exp, inexact) ==
    IF /\ bits[MantissaBits + 1] = 1
       /\ (inexact \/ AnySet(bits, MantissaBits + 2) \/ bits[MantissaBits] = 1)
    THEN Normalized(PlusOne(SubSeq(bits, 1, MantissaBits)), exp + Len(bits) - MantissaBits)
    ELSE Normalized(SubSeq(bits, 1, MantissaBits), exp + Len(bits) - MantissaBits)

\* the zeros put behind a number of len bits before it is divided by a
\* number below 2^15 or rounded, for the result to have 55 bits or more
GuardBits(len) == IF len >= 70 THEN 0 ELSE 70 - len

Rounded(bits, exp, inexact) ==
    IF Significant(bits) = << >> THEN DoubleZero
    ELSE RoundHalfEven(Significant(bits), exp, inexact)

\* the float nearest to (bits * 2^exp) / (d * 2^s), for bits that start
\* with 1
QuotientOf(bits, exp, d, s) ==
    Rounded(QuotientFrom(bits \o ZeroBits(GuardBits(Len(bits))), d, 1, 0),
            exp - GuardBits(Len(bits)) - s,
            RemainderFrom(bits \o ZeroBits(GuardBits(Len(bits))), d, 1, 0) # 0)

\* the float nearest to (bits * 2^exp) / (d * 2^s), d odd
Quotient(bits, exp, d, s) == QuotientOf(Significant(bits), exp, d, s)

\* the float of a natural number
DoubleOf(n) == Quotient(Bits(n), 0, 1, 0)

\* x + y of two floats that are not 0.0, y with the smaller exponent
SumAligned(x, y) ==
    Rounded(SumFrom(x.bits \o ZeroBits(x.exp - y.exp) \o ZeroBits(2),
                    ZeroBits(x.exp - y.exp) \o y.bits \o ZeroBits(2),
                    MantissaBits + (x.exp - y.exp) + 2, 0),
            y.exp - 2, FALSE)

\* x + y
DoubleSum(x, y) ==
    IF x = DoubleZero THEN y
    ELSE IF y = DoubleZero THEN x
    ELSE IF x.exp >= y.exp THEN SumAligned(x, y)
    ELSE SumAligned(y, x)

\* x >= y for floats that are not negative
DoubleGE(x, y) ==
    IF y = DoubleZero THEN TRUE
    ELSE IF x = DoubleZero THEN FALSE
    ELSE IF x.exp # y.exp THEN x.exp > y.exp
    ELSE ~BitsLess(x.bits, y.bits)

\* no datetime (None)
NoTime == [day |-> -1, second |-> 0, microsecond |-> 0]

\* datetime.combine(date, time(hour, 0, 0))
combine(date, hour) == [day |-> date, second |-> hour * 3600, microsecond |-> 0]

\* a < b for datetimes
Before(a, b) ==
    \/ a.day < b.day
    \/ a.day = b.day /\ a.second < b.second
    \/ a.day = b.day /\ a.second = b.second /\ a.microsecond < b.microsecond

Later(a, b) == IF Before(a, b) THEN b ELSE a

Earlier(a, b) == IF Before(a, b) THEN a ELSE b

\* b - a of two datetimes of the same day, a before b: a timedelta of seconds
\* and microseconds
timedelta(a, b) ==
    IF b.microsecond >= a.microsecond
    THEN [seconds |-> b.second - a.second, microseconds |-> b.microsecond - a.microsecond]
    ELSE [seconds |-> b.second - a.second - 1,
          microseconds |-> b.microsecond - a.microsecond + 1000000]

\* the microseconds of a timedelta, seconds * 10**6 + microseconds, in bits:
\* 10**6 is 15625 * 64
microsecond_bits(td) ==
    Bits(td.seconds * 15625 + td.microseconds \div 64) \o LowBits(td.microseconds % 64, 6)

\* timedelta.total_seconds(): the microseconds divided by 10**6
total_seconds(td) == Quotient(microsecond_bits(td), 0, 15625, 6)

\* total_seconds() / 3600.0: 3600 is 225 * 16
hours_of(td) == Quotient(total_seconds(td).bits, total_seconds(td).exp, 225, 4)

\* lines 79-92: the start and the end of the time counted on current_date
effective_start(start_dt, current_date) ==
    IF current_date = start_dt.day
    THEN Later(start_dt, combine(current_date, WORK_START_HOUR))
    ELSE combine(current_date, WORK_START_HOUR)

effective_end(end_dt, current_date) ==
    IF current_date = end_dt.day
    THEN Earlier(end_dt, combine(current_date, WORK_END_HOUR))
    ELSE combine(current_date, WORK_END_HOUR)

\* lines 94-97: total_working_hours after the day current_date
counted(start_dt, end_dt, current_date, total_working_hours) ==
    IF Before(effective_start(start_dt, current_date), effective_end(end_dt, current_date))
    THEN DoubleSum(total_working_hours,
                   hours_of(timedelta(effective_start(start_dt, current_date),
                                      effective_end(end_dt, current_date))))
    ELSE total_working_hours

\* lines 70-102: the loop over the days from current_date to the day of end_dt
RECURSIVE hours_from(_, _, _, _)
hours_from(start_dt, end_dt, current_date, total_working_hours) ==
    IF current_date > end_dt.day THEN total_working_hours
    ELSE hours_from(start_dt, end_dt, current_date + 1,
                    counted(start_dt, end_dt, current_date, total_working_hours))

calculate_working_hours_between(start_dt, end_dt) ==
    IF start_dt = NoTime \/ end_dt = NoTime THEN DoubleZero
    ELSE IF ~Before(start_dt, end_dt) THEN DoubleZero
    ELSE hours_from(start_dt, end_dt, start_dt.day, DoubleZero)

is_order_overdue(started_at, now) ==
    IF started_at = NoTime THEN FALSE
    ELSE DoubleGE(calculate_working_hours_between(started_at, now),
                  DoubleOf(OVERDUE_THRESHOLD_HOURS))

\* the days after the day of started_at on which now can fall
MaxDays == 2

\* times of the day, as second and microsecond: 07:00, 08:00, 08:00:00.000045,
\* 08:21:24.979875, 12:30, 16:59:59.999999, 17:00, 20:00
DayTimes ==
    { << 25200, 0 >>, << 28800, 0 >>, << 28800, 45 >>, << 30084, 979875 >>,
      << 45000, 0 >>, << 61199, 999999 >>, << 61200, 0 >>, << 72000, 0 >> }

Datetimes(days) ==
    { [day |-> d, second |-> t[1], microsecond |-> t[2]] : d \in days, t \in DayTimes }

NoCheck == [pc |-> "idle", started_at |-> NoTime, now |-> NoTime, out |-> FALSE,
            earlier_now |-> NoTime, earlier_out |-> FALSE]

\* is_order_overdue(started_at, now) is called and returns
CheckOrder ==
    /\ overdue.pc = "idle"
    /\ \E started_at \in Datetimes({ 0 }) \cup { NoTime }, now \in Datetimes(0..MaxDays) :
         overdue' = [NoCheck EXCEPT !.pc = "returned", !.started_at = started_at,
                                    !.now = now, !.out = is_order_overdue(started_at, now)]
    /\ UNCHANGED << extract_vars, calls, row, amount, db, requests, lookup, scan, fields >>

\* the same order is checked again at a later time
CheckAgain ==
    /\ overdue.pc = "returned"
    /\ overdue.earlier_now = NoTime
    /\ \E now \in Datetimes(0..MaxDays) :
         /\ Before(overdue.now, now)
         /\ overdue' = [overdue EXCEPT !.now = now,
                                       !.out = is_order_overdue(overdue.started_at, now),
                                       !.earlier_now = overdue.now,
                                       !.earlier_out = overdue.out]
    /\ UNCHANGED << extract_vars, calls, row, amount, db, requests, lookup, scan, fields >>

OverdueInit ==
    /\ ParseIdle
    /\ calls = << >>
    /\ row = << >>
    /\ amount = << >>
    /\ db = << >>
    /\ requests = << >>
    /\ overdue = NoCheck
    /\ lookup = << >>
    /\ scan = << >>
    /\ fields = << >>

OverdueNext ==
    \/ CheckOrder
    \/ CheckAgain

\* orders checked for being overdue
OverdueSpec == OverdueInit /\ [][OverdueNext]_vars

\* a span of time in seconds and microseconds, the microseconds below 10**6
Span(seconds, microseconds) ==
    [seconds |-> seconds + microseconds \div 1000000,
     microseconds |-> microseconds % 1000000]

\* the time of a day's working window that lies between a and b
InWindow(a, b, day) ==
    IF Before(Later(a, combine(day, WORK_START_HOUR)), Earlier(b, combine(day, WORK_END_HOUR)))
    THEN timedelta(Later(a, combine(day, WORK_START_HOUR)),
                   Earlier(b, combine(day, WORK_END_HOUR)))
    ELSE Span(0, 0)

\* the time of the working windows of the days up to day that lies between
\* a and b
RECURSIVE Overlap(_, _, _)
Overlap(a, b, day) ==
    IF day < 0 THEN Span(0, 0)
    ELSE Span(Overlap(a, b, day - 1).seconds + InWindow(a, b, day).seconds,
              Overlap(a, b, day - 1).microseconds + InWindow(a, b, day).microseconds)

Checked == overdue # << >> /\ overdue.pc = "returned"

\* C21: is_order_overdue(started_at, now) is true exactly when the time of
\* the daily working windows from 08:00 to 17:00 that lies between started_at
\* and now is 9 hours or more; it is false when started_at is missing or now
\* is not after started_at; once true for a started_at it is true for every
\* later now.
C21_OverdueIffNineHours ==
    Checked =>
        /\ overdue.started_at # NoTime /\ Before(overdue.started_at, overdue.now)
             => (overdue.out
                   <=> Overlap(overdue.started_at, overdue.now, MaxDays).seconds
                           >= OVERDUE_THRESHOLD_HOURS * 3600)
        /\ overdue.started_at = NoTime \/ ~Before(overdue.started_at, overdue.now)
             => ~overdue.out
        /\ overdue.earlier_now # NoTime /\ overdue.earlier_out => overdue.out

(***************************************************************************)
(* parse_invoice_data: the code number, the invoice number and the tax     *)
(* rate, read after the seller block has been stripped.                    *)
(***************************************************************************)
\* r'Code\s*No\s*[:=]\s*([^\n]+?)(?=\n|$)'
CodePatternA ==
    Cat(<<Lit("Code"), Star(Space), Lit("No"), Star(Space), Set({":", "="}),
      Star(Space), Grp(1, RepLazy(Not({"\n"}), 1, Inf)),
      Ahead(Alt(<<Lit("\n"), Eol>>))>>)

\* r'Code\s*#\s*[:=]\s*([^\n]+?)(?=\n|$)'
CodePatternB ==
    Cat(<<Lit("Code"), Star(Space), Lit("#"), Star(Space), Set({":", "="}),
      Star(Space), Grp(1, RepLazy(Not({"\n"}), 1, Inf)),
      Ahead(Alt(<<Lit("\n"), Eol>>))>>)

\* r'Code\s*No\.?\s*[:=]?\s*([A-Z0-9\-]+)'
CodePatternC ==
    Cat(<<Lit("Code"), Star(Space), Lit("No"), Opt(Lit(".")), Star(Space),
      Opt(Set({":", "="})), Star(Space), Grp(1,
      Plus(Set(UpperChars \cup DigitChars \cup {"-"})))>>)

\* r'Code\s*[:=]\s*([^\n]+?)(?=\n|$)'
CodePatternD ==
    Cat(<<Lit("Code"), Star(Space), Set({":", "="}), Star(Space), Grp(1,
      RepLazy(Not({"\n"}), 1, Inf)), Ahead(Alt(<<Lit("\n"), Eol>>))>>)

\* lines 281-286
code_patterns == << CodePatternA, CodePatternB, CodePatternC, CodePatternD >>

\* r'\s+(?:Customer|Date|Reference|PI|Tel|Phone|Address)\b.*$'
CodeTrailingLabel ==
    Cat(<<Plus(Space), Alt(<<Lit("Customer"), Lit("Date"), Lit("Reference"),
      Lit("PI"), Lit("Tel"), Lit("Phone"), Lit("Address")>>), WB, Star(Dot),
      Eol>>)

\* r'(?:Code\s*(?:No|#)?\s*[:=]?\s*)([A-Z0-9\-]{3,20})'
CodeInHeader ==
    Cat(<<Lit("Code"), Star(Space), Opt(Alt(<<Lit("No"), Lit("#")>>)),
      Star(Space), Opt(Set({":", "="})), Star(Space), Grp(1,
      Rep(Set(UpperChars \cup DigitChars \cup {"-"}), 3, 20))>>)

\* r'PI\s*(?:No|Number|#)\s*[:=]\s*([^\n]+?)(?=\n|$)'
PiPatternA ==
    Cat(<<Lit("PI"), Star(Space), Alt(<<Lit("No"), Lit("Number"),
      Lit("#")>>), Star(Space), Set({":", "="}), Star(Space), Grp(1,
      RepLazy(Not({"\n"}), 1, Inf)), Ahead(Alt(<<Lit("\n"), Eol>>))>>)

\* r'PI\s*No\.?\s*[:=]?\s*([A-Z0-9\-]+)'
PiPatternB ==
    Cat(<<Lit("PI"), Star(Space), Lit("No"), Opt(Lit(".")), Star(Space),
      Opt(Set({":", "="})), Star(Space), Grp(1,
      Plus(Set(UpperChars \cup DigitChars \cup {"-"})))>>)

\* r'PI\s*[:=]\s*([^\n]+?)(?=\n|$)'
PiPatternC ==
    Cat(<<Lit("PI"), Star(Space), Set({":", "="}), Star(Space), Grp(1,
      RepLazy(Not({"\n"}), 1, Inf)), Ahead(Alt(<<Lit("\n"), Eol>>))>>)

\* r'Proforma\s*Invoice\s*(?:No|Number|#)\s*[:=]\s*([^\n]+?)(?=\n|$)'
PiPatternD ==
    Cat(<<Lit("Proforma"), Star(Space), Lit("Invoice"), Star(Space),
      Alt(<<Lit("No"), Lit("Number"), Lit("#")>>), Star(Space), Set({":",
      "="}), Star(Space), Grp(1, RepLazy(Not({"\n"}), 1, Inf)),
      Ahead(Alt(<<Lit("\n"), Eol>>))>>)

\* r'Proforma\s*Invoice\s*[:=]\s*([^\n]+?)(?=\n|$)'
PiPatternE ==
    Cat(<<Lit("Proforma"), Star(Space), Lit("Invoice"), Star(Space),
      Set({":", "="}), Star(Space), Grp(1, RepLazy(Not({"\n"}), 1, Inf)),
      Ahead(Alt(<<Lit("\n"), Eol>>))>>)

\* lines 608-614
pi_patterns == << PiPatternA, PiPatternB, PiPatternC, PiPatternD, PiPatternE >>

\* r'\s+(?:Date|Cust|Ref|Del|Code|Customer|Address|Tel)\b.*$'
PiTrailingLabel ==
    Cat(<<Plus(Space), Alt(<<Lit("Date"), Lit("Cust"), Lit("Ref"),
      Lit("Del"), Lit("Code"), Lit("Customer"), Lit("Address"),
      Lit("Tel")>>), WB, Star(Dot), Eol>>)

\* r'Invoice\s*(?:No|Number|#)\s*[:=]\s*([^\n]+?)(?=\n|$)'
InvoicePatternA ==
    Cat(<<Lit("Invoice"), Star(Space), Alt(<<Lit("No"), Lit("Number"),
      Lit("#")>>), Star(Space), Set({":", "="}), Star(Space), Grp(1,
      RepLazy(Not({"\n"}), 1, Inf)), Ahead(Alt(<<Lit("\n"), Eol>>))>>)

\* r'Invoice\s*No\.?\s*[:=]?\s*([A-Z0-9\-]+)'
InvoicePatternB ==
    Cat(<<Lit("Invoice"), Star(Space), Lit("No"), Opt(Lit(".")), Star(Space),
      Opt(Set({":", "="})), Star(Space), Grp(1,
      Plus(Set(UpperChars \cup DigitChars \cup {"-"})))>>)

\* r'Invoice\s*[:=]\s*([^\n]+?)(?=\n|$)'
InvoicePatternC ==
    Cat(<<Lit("Invoice"), Star(Space), Set({":", "="}), Star(Space), Grp(1,
      RepLazy(Not({"\n"}), 1, Inf)), Ahead(Alt(<<Lit("\n"), Eol>>))>>)

\* lines 626-630
invoice_patterns == << InvoicePatternA, InvoicePatternB, InvoicePatternC >>

\* r'\s+(?:Date|Cust|Ref|Del|Code)\b.*$'
InvoiceTrailingLabel ==
    Cat(<<Plus(Space), Alt(<<Lit("Date"), Lit("Cust"), Lit("Ref"),
      Lit("Del"), Lit("Code")>>), WB, Star(Dot), Eol>>)

\* r'(?:PI|INV|Invoice)[\s\-]*([A-Z0-9\-]{3,20})'
InvoiceInHeader ==
    Cat(<<Alt(<<Lit("PI"), Lit("INV"), Lit("Invoice")>>),
      Star(Set(SpaceChars \cup {"-"})), Grp(1,
      Rep(Set(UpperChars \cup DigitChars \cup {"-"}), 3, 20))>>)

\* r'VAT.*?(\d+(?:\.\d+)?)\s*%|Tax\s*Rate.*?(\d+(?:\.\d+)?)\s*%'
tax_rate_pattern ==
    Alt(<<Cat(<<Lit("VAT"), RepLazy(Dot, 0, Inf), Grp(1, Cat(<<Plus(Digit),
      Opt(Cat(<<Lit("."), Plus(Digit)>>))>>)), Star(Space), Lit("%")>>),
      Cat(<<Lit("Tax"), Star(Space), Lit("Rate"), RepLazy(Dot, 0, Inf),
      Grp(2, Cat(<<Plus(Digit), Opt(Cat(<<Lit("."), Plus(Digit)>>))>>)),
      Star(Space), Lit("%")>>)>>)

RECURSIVE pattern_loop(_, _, _, _, _)
\* lines 291-295: the value of a match is kept and the loop left when the
\* value has two characters or more
value_kept(patterns, trailing, normalized_text, k, candidate) ==
    IF Len(candidate) > 1 THEN candidate
    ELSE pattern_loop(patterns, trailing, normalized_text, k + 1, candidate)

\* lines 289-295: the pattern k is searched; the group of a match, stripped
\* and without a trailing label, is the new value
pattern_tried(patterns, trailing, normalized_text, k, value, m) ==
    IF ~m.ok THEN pattern_loop(patterns, trailing, normalized_text, k + 1, value)
    ELSE value_kept(patterns, trailing, normalized_text, k,
                    strip(sub(trailing, "", strip(group(m, normalized_text, 1)), ReI)))

\* lines 288-295 (616-622, 632-638): the loop over the patterns from the
\* pattern k on; value is the value the patterns before k have left
pattern_loop(patterns, trailing, normalized_text, k, value) ==
    IF k > Len(patterns) THEN value
    ELSE pattern_tried(patterns, trailing, normalized_text, k, value,
                       search(patterns[k], normalized_text, ReIM))

\* lines 298-303 (641-647): the first match in the header section, if the
\* patterns left no value
in_header(value, matches) ==
    IF Truthy(value) THEN value
    ELSE IF matches # << >> THEN strip(matches[1])
    ELSE value

\* lines 277-303: code_no, from the text left and the lines of the whole text
code_no_of(normalized_text, lines) ==
    in_header(pattern_loop(code_patterns, CodeTrailingLabel, normalized_text, 1, None),
              findall(CodeInHeader, join("\n", Take(lines, 20)), ReI, 1))

\* lines 624-638: the invoice patterns are tried if the PI patterns left no value
invoice_tried(normalized_text, value) ==
    IF Truthy(value) THEN value
    ELSE pattern_loop(invoice_patterns, InvoiceTrailingLabel, normalized_text, 1, value)

\* lines 604-647: invoice_no, from the text left and the lines of the whole text
invoice_no_of(normalized_text, lines) ==
    in_header(invoice_tried(normalized_text,
                            pattern_loop(pi_patterns, PiTrailingLabel, normalized_text, 1, None)),
              findall(InvoiceInHeader, join("\n", Take(lines, 15)), ReI, 1))

\* a / b of two Decimals, b not 0, written with 4 fractional digits (Decimal
\* keeps 28 significant digits)
DecimalQuotient(a, b) ==
    Dec(a.neg # b.neg, (a.coef * Pow10(4 + b.frac)) \div (b.coef * Pow10(a.frac)), 4)

\* a * Decimal('100')
TimesHundred(a) == Dec(a.neg, a.coef * 100, a.frac)

\* lines 735-741: the rate of the match
rate_of(m, normalized_text) ==
    IF ~m.ok THEN NullDec
    ELSE IF Truthy(group(m, normalized_text, 1)) THEN DecimalOf(group(m, normalized_text, 1))
    ELSE DecimalOf(group(m, normalized_text, 2))

\* lines 743-748: the rate computed from subtotal and tax if there is none
rate_or_computed(tax_rate, subtotal, tax) ==
    IF ~DecTruthy(tax_rate) /\ DecTruthy(subtotal) /\ DecTruthy(tax) /\ ~subtotal.neg
    THEN TimesHundred(DecimalQuotient(tax, subtotal))
    ELSE tax_rate

\* lines 732-748: tax_rate
tax_rate_of(normalized_text, subtotal, tax) ==
    rate_or_computed(rate_of(search(tax_rate_pattern, normalized_text, ReI), normalized_text),
                     subtotal, tax)

\* the texts the fields are read from
FieldTexts ==
    { "PIONEER LTD\nInvoice\nTotal: 5",
      "ACME\nInvoice\nTotal: 5",
      "INVESTCO\nP.O. Box 5\nDate: 1",
      "ACME\nDate: 1\nTotal: 5",
      "Invoice\nCode No: 7",
      "Invoice\nCode No: AB12",
      "Invoice\nCode No: X Date 5",
      "Invoice\nCode: C-100 Tel 5",
      "Invoice\nCode # = 12",
      "ACME\nCode\nAB-123",
      "Invoice\nPI No: 7",
      "Invoice\nPI No: PI-77",
      "PI No. 2024-01\nDate: 1",
      "Proforma Invoice: P9\nDate: 1",
      "Invoice No: 5\nDate: 1",
      "Invoice No: INV-5 Date 1",
      "Invoice: 77\nTotal: 5",
      "ACME\nINV-2024\nDate: 1",
      "Invoice\nVAT 18%",
      "Invoice\nVAT 0%",
      "Invoice\nTax Rate: 7.5 %",
      "Date: 1\nNet Value: 100\nVAT: 18",
      "Date: 1\nNet Value: 100\nVAT: 0",
      "Date: 1\nNet Value: 0\nVAT: 18",
      "Date: 1\nSubtotal: 200\nVAT 0%\nTax: 36",
      "Date: 1\nSubtotal: 200\nVAT 10%\nTax: 36",
      "Date: 1\nSubtotal: 200\nVAT: 36\nTax Rate 0%",
      "Date: 1\nNet Value: 100",
      "Date: 1\nTax: 18",
      "Date: 1\nTotal: 5" }

NoFields ==
    [pc |-> "idle", text |-> "", normalized_text |-> "", lines |-> << >>,
     code_no |-> None, invoice_no |-> None, subtotal |-> NullDec, tax |-> NullDec,
     tax_rate |-> NullDec]

\* lines 152-214: the lines of the text are cleaned and the seller block is
\* stripped from the text
StripSeller ==
    /\ fields.pc = "idle"
    /\ \E t \in FieldTexts :
         fields' = [NoFields EXCEPT !.pc = "code_no", !.text = t,
                                    !.lines = cleaned_lines(strip(t)),
                                    !.normalized_text = seller_block(t).normalized_text]
    /\ UNCHANGED << extract_vars, calls, row, amount, db, requests, overdue, lookup, scan >>

\* lines 277-303
ExtractCodeNo ==
    /\ fields.pc = "code_no"
    /\ fields' = [fields EXCEPT !.pc = "invoice_no",
                                !.code_no = code_no_of(fields.normalized_text, fields.lines)]
    /\ UNCHANGED << extract_vars, calls, row, amount, db, requests, overdue, lookup, scan >>

\* lines 604-647
ExtractInvoiceNo ==
    /\ fields.pc = "invoice_no"
    /\ fields' = [fields EXCEPT !.pc = "amounts",
                                !.invoice_no = invoice_no_of(fields.normalized_text,
                                                             fields.lines)]
    /\ UNCHANGED << extract_vars, calls, row, amount, db, requests, overdue, lookup, scan >>

\* lines 716-730: subtotal and tax
ExtractAmounts ==
    /\ fields.pc = "amounts"
    /\ fields' = [fields EXCEPT !.pc = "tax_rate",
                                !.subtotal = to_decimal(find_amount(SubtotalLabels,
                                                                    fields.normalized_text)),
                                !.tax = to_decimal(find_amount(TaxLabels,
                                                               fields.normalized_text))]
    /\ UNCHANGED << extract_vars, calls, row, amount, db, requests, overdue, lookup, scan >>

\* lines 732-748
ExtractTaxRate ==
    /\ fields.pc = "tax_rate"
    /\ fields' = [fields EXCEPT !.pc = "done",
                                !.tax_rate = tax_rate_of(fields.normalized_text,
                                                         fields.subtotal, fields.tax)]
    /\ UNCHANGED << extract_vars, calls, row, amount, db, requests, overdue, lookup, scan >>

FieldsInit ==
    /\ ParseIdle
    /\ calls = << >>
    /\ row = << >>
    /\ amount = << >>
    /\ db = << >>
    /\ requests = << >>
    /\ overdue = << >>
    /\ lookup = << >>
    /\ scan = << >>
    /\ fields = NoFields

FieldsNext ==
    \/ StripSeller
    \/ ExtractCodeNo
    \/ ExtractInvoiceNo
    \/ ExtractAmounts
    \/ ExtractTaxRate

\* the header fields of parse_invoice_data that are read after the seller block
FieldsSpec == FieldsInit /\ [][FieldsNext]_vars

FieldsDone == fields # << >> /\ fields.pc = "done"

\* C22: after the seller block has been stripped, every extractor reads the
\* stripped text only: no header field, code_no and invoice_no from the
\* header section in particular, is taken from a line of the seller block; they
\* are what the lines of the stripped text give.
C22_FieldsFromStrippedText ==
    FieldsDone =>
        /\ fields.code_no = code_no_of(fields.normalized_text,
                                       cleaned_lines(fields.normalized_text))
        /\ fields.invoice_no = invoice_no_of(fields.normalized_text,
                                             cleaned_lines(fields.normalized_text))

\* C27: code_no and invoice_no, when they are not null in the result, have two
\* characters or more: a candidate of no or one character that a pattern
\* matched is rejected and is not returned, even if no later pattern matches.
C27_NumbersOfTwoCharacters ==
    FieldsDone =>
        /\ fields.code_no # None => Len(fields.code_no) >= 2
        /\ fields.invoice_no # None => Len(fields.invoice_no) >= 2

\* the percentage written near VAT or Tax Rate in the text, null if there is none
Literal(normalized_text) ==
    rate_of(search(tax_rate_pattern, normalized_text, ReI), normalized_text)

\* a = b as numbers, for Decimals that are not null
SameNumber(a, b) ==
    /\ a.coef * Pow10(b.frac) = b.coef * Pow10(a.frac)
    /\ a.neg = b.neg \/ a.coef = 0

\* subtotal and tax are known and subtotal > 0
Derivable(subtotal, tax) ==
    ~subtotal.null /\ ~tax.null /\ subtotal.coef > 0 /\ ~subtotal.neg

\* C28: tax_rate is the percentage written near VAT or Tax Rate whenever there
\* is one, a written 0 included; only when none is written and subtotal and
\* tax are both known with subtotal > 0 is tax_rate tax / subtotal * 100, 0 for
\* a tax of 0; in every other case tax_rate is null.
C28_TaxRate ==
    FieldsDone =>
        IF ~Literal(fields.normalized_text).null
        THEN fields.tax_rate = Literal(fields.normalized_text)
        ELSE IF Derivable(fields.subtotal, fields.tax)
        THEN /\ ~fields.tax_rate.null
             /\ SameNumber(fields.tax_rate,
                           TimesHundred(DecimalQuotient(fields.tax, fields.subtotal)))
        ELSE fields.tax_rate.null

(***************************************************************************)
(* extract_field_value, one strategy at a time.                            *)
(***************************************************************************)
MaxDistance == 3

\* the labels of the call at lines 401-405
label_patterns == <<BillTo, BuyerName, ClientName>>

LookupTexts ==
    { "Bill To: Acme",
      "Bill To: Tel: 5",
      "Bill To: Date\nAcme",
      "Bill To Acme Ltd",
      "Bill To Date 5",
      "Bill To 4U",
      "Bill To\n4 Seasons",
      "Bill To\n\n4 Seasons",
      "Bill To\n\n\n4 Seasons",
      "Bill To\nTel 5",
      "Bill To\nTel: 5\n4U",
      "Bill To\n\nDate: 1\nBill To\n4U",
      "Buyer Name: Tel\n7 Up",
      "Buyer Name\n\n7 Up",
      "Client Name = Acme",
      "Client Name\n \n9 Ltd",
      "Invoice\nTotal: 5",
      "Bill To:\nBuyer Name: Juma" }

NoLookup ==
    [pc |-> "idle", search_text |-> "", max_distance |-> 0, k |-> 0, line |-> 0,
     inline |-> "", near |-> None, strategy |-> 0, value |-> None]

\* line 217: a call with a text and a maximum distance
LookupCall ==
    /\ lookup.pc = "idle"
    /\ \E t \in LookupTexts, d \in 1..MaxDistance :
         lookup' = [NoLookup EXCEPT !.pc = "same_line", !.search_text = t,
                                    !.max_distance = d, !.k = 1]
    /\ UNCHANGED << extract_vars, calls, row, amount, db, requests, overdue, scan, fields >>

\* lines 234-241, strategy 1: "Label: Value" on one line
SameLine ==
    /\ lookup.pc = "same_line"
    /\ LET value == found_group(FieldSameLine(label_patterns[lookup.k]),
                                lookup.search_text, ReIM, 1, "")
       IN lookup' = IF value # "" /\ ~match(StartsWithStop, value, ReI).ok
                    THEN [lookup EXCEPT !.pc = "done", !.strategy = 1, !.value = value]
                    ELSE [lookup EXCEPT !.pc = "spaced"]
    /\ UNCHANGED << extract_vars, calls, row, amount, db, requests, overdue, scan, fields >>

\* lines 243-249, strategy 2: "Label Value"
Spaced ==
    /\ lookup.pc = "spaced"
    /\ LET value == found_group(FieldSpaced(label_patterns[lookup.k]),
                                lookup.search_text, ReIM, 1, "")
       IN lookup' = IF value # "" /\ ~match(StartsWithStop, value, ReI).ok
                       /\ Len(value) > 2
                    THEN [lookup EXCEPT !.pc = "done", !.strategy = 2, !.value = value]
                    ELSE [lookup EXCEPT !.pc = "lines", !.line = 0]
    /\ UNCHANGED << extract_vars, calls, row, amount, db, requests, overdue, scan, fields >>

\* the label lines after line i
LabelLines(label, lines, i) ==
    { n \in (i + 1)..Len(lines) : search(label, lines[n], ReI).ok }

\* lines 252-273, strategy 3 at the label line i: the rest of the line, else
\* the lines after it
AtLabelLine(frame, label, lines, i) ==
    LET Found(inline, near) ==
            IF inline # "" /\ upper(inline) \notin {":", "=", ""}
            THEN [frame EXCEPT !.pc = "done", !.strategy = 3, !.line = i,
                               !.inline = inline, !.near = None, !.value = inline]
            ELSE IF near # None
            THEN [frame EXCEPT !.pc = "done", !.strategy = 3, !.line = i,
                               !.inline = "", !.near = near, !.value = near]
            ELSE [frame EXCEPT !.line = i, !.inline = "", !.near = None]
    IN Found(found_group(FieldInLine(label), lines[i], ReI, 1, ""),
             NextValueLine(lines, i, 1, Min(frame.max_distance, Len(lines) - (i - 1))))

\* line 275 and the head of the loop at line 233: the next label, else None
NextLabel(frame) ==
    IF frame.k < Len(label_patterns)
    THEN [frame EXCEPT !.pc = "same_line", !.k = frame.k + 1, !.line = 0,
                       !.inline = "", !.near = None]
    ELSE [frame EXCEPT !.pc = "done", !.strategy = 0, !.value = None]

\* lines 251-273, strategy 3: the next line that holds the label
LabelLine ==
    /\ lookup.pc = "lines"
    /\ LET lines == split(lookup.search_text, "\n")
           after == LabelLines(label_patterns[lookup.k], lines, lookup.line)
       IN lookup' = IF after = {} THEN NextLabel(lookup)
                    ELSE AtLabelLine(lookup, label_patterns[lookup.k], lines,
                                     CHOOSE n \in after : \A o \in after : n <= o)
    /\ UNCHANGED << extract_vars, calls, row, amount, db, requests, overdue, scan, fields >>

LookupInit ==
    /\ ParseIdle
    /\ calls = << >>
    /\ row = << >>
    /\ amount = << >>
    /\ db = << >>
    /\ requests = << >>
    /\ overdue = << >>
    /\ lookup = NoLookup
    /\ scan = << >>
    /\ fields = << >>

LookupNext ==
    \/ LookupCall
    \/ SameLine
    \/ Spaced
    \/ LabelLine

\* a call of extract_field_value with the labels of the customer name
LookupSpec == LookupInit /\ [][LookupNext]_vars

LookupDone == lookup # << >> /\ lookup.pc = "done"

\* the steps together return what the function returns
LookupAgrees ==
    LookupDone =>
        lookup.value = extract_field_value(label_patterns, lookup.search_text,
                                           lookup.max_distance)

\* C23: extract_field_value never returns a value that itself begins with a
\* stop-word label (Tel, Fax, Ref, Date, ...), whichever of the three
\* strategies produced it.
C23_NoStopWordValue ==
    (LookupDone /\ lookup.value # None) =>
        ~match(StartsWithStop, lookup.value, ReI).ok

\* the lines at a distance of 1 to max_distance after the label line that
\* are not blank
NonBlankAfter(lines, i, max_distance) ==
    { j \in 1..max_distance : i + j <= Len(lines) /\ strip(lines[i + j]) # "" }

\* the first of them, unless it begins with a stop-word label
FirstAfter(lines, i, max_distance) ==
    LET after == NonBlankAfter(lines, i, max_distance)
        First(j) == IF match(StartsWithStop, strip(lines[i + j]), ReI).ok THEN None
                    ELSE strip(lines[i + j])
    IN IF after = {} THEN None
       ELSE First(CHOOSE j \in after : \A o \in after : j <= o)

\* C24: in strategy 3, when the label line has no value of its own, the
\* value is the first non-blank line at a distance of 1 to max_distance
\* lines after the label line, max_distance included, unless a line that
\* begins with a stop-word label comes first.
C24_FirstLineWithinDistance ==
    (lookup # << >> /\ lookup.pc \in {"lines", "done"} /\ lookup.line > 0
       /\ lookup.inline = "") =>
        lookup.near = FirstAfter(split(lookup.search_text, "\n"), lookup.line,
                                 lookup.max_distance)

(***************************************************************************)
(* The scan for line items, one line at a time (lines 848-1044).  A row    *)
(* that is parsed may raise inside the try block of lines 913-1041: the    *)
(* row "Wiper 2 3 999...9" with a number of 400 digits makes int(fn) raise *)
(* OverflowError at line 1029.  Numbers of that size are not represented;  *)
(* the exception is an outcome any parsed row may have.                    *)
(***************************************************************************)
ScanTexts ==
    { "Invoice\nCode Qty Value\nOil filter 4500\nWiper 2 3 900\nBrake pad 2 5000",
      "Invoice\nCode Qty Value\nNet Value 1000.00\nBrake pad 5000",
      "Invoice\nCode Qty Value\nOil filter 4500\nNet Value 1000.00\nBrake pad 5000",
      "Invoice\nCode Qty Value\nBrake pad PCS 2 5000",
      "Invoice\nCode Qty Value\nBrake pad PCS 2 10 5000\nPCS\n18%",
      "Invoice\nCode Qty Value\nOil filter 4500\nTotal: 4500",
      "Invoice\nOil filter 4500\nTotal: 4500",
      "Invoice\nCode Qty Value\nOil filter 4500\nItem Qty Amount\nWiper 2 300",
      "Invoice\nCode Qty Value\nBrake pad 0 5000\nPayment: cash",
      "Invoice\nCode Qty Value\n12.5%\nWiper 2 300\nRemarks\nBolt 7 70",
      "Invoice\nCode Qty Value\nTotal: 5000\nOil filter 4500",
      "Invoice\nCode Qty Value\nWiper KIT 300\nBolt 7 70\nGrand Total 370",
      "Invoice\nBolt 7 70\nCode Qty Value\nNut 3 30\n\nDelivery\nCode Qty Value\nPin 2 20",
      "Invoice\nCode Qty Value" }

NoScan ==
    [pc |-> "idle", text |-> "", line_data |-> << >>, list_idx |-> 0,
     item_header_idx |-> 0, items |-> << >>, rows |-> << >>, looked |-> {},
     continuation |-> {}, raised |-> {}]

\* lines 853-858: the lines of the text left after the seller block
StartScan ==
    /\ scan.pc = "idle"
    /\ \E t \in ScanTexts :
         scan' = [NoScan EXCEPT !.pc = "scan", !.text = t, !.list_idx = 1,
                    !.line_data = cleaned_lines(seller_block(t).normalized_text)]
    /\ UNCHANGED << extract_vars, calls, row, amount, db, requests, overdue, lookup, fields >>

\* the scan is at a line
AtLine == scan.pc = "scan" /\ scan.list_idx <= Len(scan.line_data)

\* lines 863-875: the line is a table header
IsHeader == keyword_count(scan.line_data[scan.list_idx]) >= 3

\* lines 878-880: the line ends the table
IsStop ==
    /\ scan.item_header_idx # 0
    /\ scan.list_idx > scan.item_header_idx + 1
    /\ search(TotalsMarker, scan.line_data[scan.list_idx], ReI).ok

\* line 883: the line is in the table
InTable == scan.item_header_idx # 0 /\ scan.list_idx > scan.item_header_idx

\* lines 872-875
ScanHeader ==
    /\ AtLine
    /\ IsHeader
    /\ scan' = [scan EXCEPT !.item_header_idx = scan.list_idx,
                            !.list_idx = scan.list_idx + 1]
    /\ UNCHANGED << extract_vars, calls, row, amount, db, requests, overdue, lookup, fields >>

\* lines 877-880: break
ScanTotals ==
    /\ AtLine
    /\ ~IsHeader
    /\ IsStop
    /\ scan' = [scan EXCEPT !.pc = "done"]
    /\ UNCHANGED << extract_vars, calls, row, amount, db, requests, overdue, lookup, fields >>

\* line 883: a line before the first header is passed over
ScanOutside ==
    /\ AtLine
    /\ ~IsHeader
    /\ ~IsStop
    /\ ~InTable
    /\ scan' = [scan EXCEPT !.list_idx = scan.list_idx + 1]
    /\ UNCHANGED << extract_vars, calls, row, amount, db, requests, overdue, lookup, fields >>

\* line 907
is_likely_item_row(line_stripped, numbers) ==
    /\ Len(line_stripped) > 5
    /\ numbers # << >>
    /\ search(Letter, line_stripped, Re0).ok

\* line 910
is_continuation_only(line_stripped, unit_value, float_numbers) ==
    /\ unit_value # None \/ match(BareNumber, line_stripped, Re0).ok
    /\ Len(float_numbers) <= 2

\* lines 888-912: the row at the line is parsed
IsParsed(line_stripped) ==
    LET numbers == findall(NumberToken, line_stripped, Re0, 0)
        unit_value == unit_value_of(search(UnitToken, line_stripped, ReI), line_stripped)
    IN /\ is_likely_item_row(line_stripped, numbers)
       /\ ~is_continuation_only(line_stripped, unit_value, FloatsOf(numbers))

\* line 910 for the line: it is taken for a continuation line
IsContinuation(line_stripped) ==
    is_continuation_only(line_stripped,
        unit_value_of(search(UnitToken, line_stripped, ReI), line_stripped),
        FloatsOf(findall(NumberToken, line_stripped, Re0, 0)))

\* the indexes n, once for each item of the row at line n
RowsOf(n, items) == [k \in 1..Len(items) |-> n]

\* lines 888-1041: a line of the table; its row is appended, dropped or not
\* parsed at all
row_scanned(frame, line_stripped, items) ==
    [frame EXCEPT !.list_idx = frame.list_idx + 1,
                  !.items = frame.items \o items,
                  !.rows = frame.rows \o RowsOf(frame.list_idx, items),
                  !.looked = frame.looked \cup { frame.list_idx },
                  !.continuation = IF IsContinuation(line_stripped)
                                   THEN frame.continuation \cup { frame.list_idx }
                                   ELSE frame.continuation]

ScanLine ==
    /\ AtLine
    /\ ~IsHeader
    /\ ~IsStop
    /\ InTable
    /\ scan' = row_scanned(scan, scan.line_data[scan.list_idx],
                           row_items(scan.line_data[scan.list_idx]))
    /\ UNCHANGED << extract_vars, calls, row, amount, db, requests, overdue, lookup, fields >>

\* the exception leaves the function: nothing is returned
row_failed_abort(frame) ==
    [frame EXCEPT !.pc = "failed", !.items = << >>, !.rows = << >>,
                  !.looked = frame.looked \cup { frame.list_idx },
                  !.raised = frame.raised \cup { frame.list_idx }]

\* lines 1043-1044: the exception is logged and the loop goes on
row_failed(frame) ==
    [frame EXCEPT !.list_idx = frame.list_idx + 1,
                  !.looked = frame.looked \cup { frame.list_idx },
                  !.raised = frame.raised \cup { frame.list_idx }]

\* lines 913-1044: a statement of the try block raises
RowRaises ==
    /\ AtLine
    /\ ~IsHeader
    /\ ~IsStop
    /\ InTable
    /\ IsParsed(scan.line_data[scan.list_idx])
    /\ scan' = row_failed(scan)
    /\ UNCHANGED << extract_vars, calls, row, amount, db, requests, overdue, lookup, fields >>

\* line 1046: the loop is over
ScanEnd ==
    /\ scan.pc = "scan"
    /\ scan.list_idx > Len(scan.line_data)
    /\ scan' = [scan EXCEPT !.pc = "done"]
    /\ UNCHANGED << extract_vars, calls, row, amount, db, requests, overdue, lookup, fields >>

ScanInit ==
    /\ ParseIdle
    /\ calls = << >>
    /\ row = << >>
    /\ amount = << >>
    /\ db = << >>
    /\ requests = << >>
    /\ overdue = << >>
    /\ lookup = << >>
    /\ scan = NoScan
    /\ fields = << >>

ScanNext ==
    \/ StartScan
    \/ ScanHeader
    \/ ScanTotals
    \/ ScanOutside
    \/ ScanLine
    \/ RowRaises
    \/ ScanEnd

\* the scan for line items of parse_invoice_data
ScanSpec == ScanInit /\ [][ScanNext]_vars

ScanDone == scan # << >> /\ scan.pc = "done"

\* without an exception the steps give the items of the function
ScanAgrees ==
    (ScanDone /\ scan.raised = {}) =>
        scan.items = items_of(seller_block(scan.text).normalized_text)

\* the line is a table header
HeaderLine(line_stripped) == keyword_count(line_stripped) >= 3

\* the line matches a totals/summary marker
TotalsLine(line_stripped) == search(TotalsMarker, line_stripped, ReI).ok

\* C25: items come only from lines after a table-header line and before the
\* first following line that matches a totals/summary marker: no item comes
\* from a marker line, also when that line is directly after the header, and
\* nothing after the terminating line is parsed.
C25_ItemsInsideTable ==
    scan # << >> =>
        \A k \in DOMAIN scan.rows :
            \E h \in 1..(scan.rows[k] - 1) :
                /\ HeaderLine(scan.line_data[h])
                /\ \A n \in (h + 1)..scan.rows[k] : ~TotalsLine(scan.line_data[n])

\* the line is nothing but a unit token or a bare percentage
UnitOnly == Cat(<<UnitToken, Star(Space), Eol>>)

OnlyUnitOrPercentage(line_stripped) ==
    \/ match(UnitOnly, line_stripped, ReI).ok
    \/ match(BareNumber, line_stripped, Re0).ok

\* C26: a line of the table is rejected as a continuation line only when it
\* is nothing but a unit token or a bare percentage and has at most 2 numeric
\* tokens; a line with a description, a unit token and two numbers is an item
\* row.
C26_ContinuationOnly ==
    scan # << >> =>
        \A n \in scan.continuation :
            /\ OnlyUnitOrPercentage(scan.line_data[n])
            /\ Len(findall(NumberToken, scan.line_data[n], Re0, 0)) <= 2

RECURSIVE ItemsOfLines(_, _, _)
\* the items of the lines of the set, from line n on, in the order of the lines
ItemsOfLines(line_data, lines, n) ==
    IF n > Len(line_data) THEN << >>
    ELSE (IF n \in lines THEN row_items(line_data[n]) ELSE << >>)
         \o ItemsOfLines(line_data, lines, n + 1)

\* the lines of the table: after a header, up to a marker line two lines or
\* more after the last header
RECURSIVE TableLines(_, _, _)
TableLines(line_data, n, h) ==
    IF n > Len(line_data) THEN {}
    ELSE IF HeaderLine(line_data[n]) THEN TableLines(line_data, n + 1, n)
    ELSE IF h # 0 /\ n > h + 1 /\ TotalsLine(line_data[n]) THEN {}
    ELSE (IF h # 0 THEN { n } ELSE {}) \cup TableLines(line_data, n + 1, h)

\* C29: when the parsing of a row raises, the row is skipped and every later
\* row of the table is still scanned; the items appended before are kept, in
\* the order of the lines, and the call does not fail.
C29_RowExceptionSkipsRow ==
    scan # << >> =>
        /\ scan.pc # "failed"
        /\ scan.items = ItemsOfLines(scan.line_data, scan.looked \ scan.raised, 1)
        /\ ScanDone => scan.looked = TableLines(scan.line_data, 1, 0)

\* a row has raised between two rows that are returned
C29_Witness ==
    /\ ScanDone
    /\ \E r \in scan.raised, j \in DOMAIN scan.rows, k \in DOMAIN scan.rows :
         scan.rows[j] < r /\ r < scan.rows[k]

(***************************************************************************)
(* The quantity of an item row.                                            *)
(***************************************************************************)
\* C30: every line item that is returned has a whole quantity of at least 1:
\* no branch of the assignment of the numeric roles (one, two, three or more
\* numbers) stores a quantity of 0.
C30_QuantityAtLeastOne ==
    \A k \in DOMAIN row.items : row.items[k].qty >= 1

====
